---- MODULE Spec2Model ----
(***************************************************************************)
(* Model of the alert intelligence pipeline of cycsafe:                    *)
(*   - the alert aggregator   (src/services/alertsService.ts)              *)
(*   - the location tracker   (src/services/LocationBus.ts)                *)
(*   - the incident classifier (src/services/vicEmergency.ts)              *)
(* The browser's event loop is modelled as it runs the code: one action is *)
(* one task (a timer tick, an event handler, a settled network promise)    *)
(* together with everything it does synchronously.  The continuation of a  *)
(* promise rejected by AbortController.abort() is a microtask: it runs     *)
(* before any further task, which the guards NoAbortPending and            *)
(* NoGeoAbortPending state.                                                *)
(***************************************************************************)
EXTENDS Integers, Sequences, FiniteSets, Bags, TLC

VARIABLES
  \* ---- aggregator (alertsService.ts) ----
  timer,             \* the interval handle is set
  intervals,         \* number of live interval timers of the aggregator
  listeners,         \* registered (target, event) listeners of the aggregator
  inflight,          \* 0 (null) or the cycle whose AbortController it holds
  cyc,               \* the fetchOnce invocations, in start order
  lsWeather,         \* localStorage "cs.weather.alerts"
  lsAlertsList,      \* localStorage "cs.alerts.list"
  lsAlertsTotal,     \* localStorage "cs.alerts.total"
  lsAlertsUpdatedAt, \* localStorage "cs.alerts.updatedAt"
  nEvAlerts,         \* number of "cs:alerts" events dispatched
  nEvList,           \* number of "cs:alerts:list" events dispatched
  evList,            \* detail.list of the last "cs:alerts:list" event
  errLog,            \* number of console.error("load alerts failed") calls
  lastCall,          \* last lifecycle call of the aggregator
  clock,             \* wall clock, in steps of 500 ms
  dispatched,        \* the call or event the last task of the aggregator handled
  \* ---- the merge of one cycle, on its own ----
  mBackend, mWeather, mNow, mOut, mDone,
  \* ---- location tracker (LocationBus.ts) ----
  API,               \* VITE_LAMBDA_URL is configured
  snap,              \* the LocationSnapshot
  timerId,           \* the tick interval is set
  tickTimers,        \* number of live tick intervals of the tracker
  inFlightGeocode,   \* 0 (null) or the geocode request whose controller it holds
  geo,               \* the reverse-geocode calls, in start order
  posPending,        \* getCurrentPosition calls not yet answered
  permQ,             \* bag of the snapshots spread by "{...snap, permission: await ...}"
                     \* whose permission query has not resolved yet
  lsAddress,         \* localStorage "cs.address"
  lsCoords,          \* localStorage "cs.coords"
  ssLastCell,        \* sessionStorage "cs.loc.lastGeocodeCell"
  published,         \* what the broadcasts of the last task delivered and wrote
  locCall,           \* last lifecycle call of the tracker ("restart": start while running)
  runCell,           \* cell of the last fix
  runReqs,           \* geocode requests issued since the fixes entered runCell
  \* ---- the subscribers of the tracker (LocationBus.ts, subs) ----
  subs,              \* the Set of listener functions, in insertion order
  handles,           \* the unsubscribe closures returned so far, in call order
  invoked,           \* the listener calls made by the last task: <<fn, snapshot>>
  subCall,           \* what the last task did to the subscribers
  waits,             \* the waitForFirstFix calls, in call order
  \* ---- the incident classifier (vicEmergency.ts) ----
  cEvents,           \* features of the events feed
  cImpacts,          \* features of the impact feed
  cLat,              \* latitude the caller passes
  vicNow,            \* Date.now() of the classifier, ms
  cRuns,             \* the classifications made: time and result
  feedCache,         \* _feedCache
  vicCalls           \* the fetchVicIncidents calls through the cache, in start order

aggVars == <<timer, intervals, listeners, inflight, cyc, lsWeather, lsAlertsList,
             lsAlertsTotal, lsAlertsUpdatedAt, nEvAlerts, nEvList, evList,
             errLog, lastCall, clock>>
mergeVars == <<mBackend, mWeather, mNow, mOut, mDone>>
locVars == <<API, snap, timerId, tickTimers, inFlightGeocode, geo, posPending, permQ, lsAddress,
             lsCoords, ssLastCell, published, locCall, runCell, runReqs>>
subVars == <<subs, handles, invoked, subCall>>
clsVars == <<cEvents, cImpacts, cLat, cRuns>>
cacheVars == <<feedCache, vicCalls>>
vicVars == <<clsVars, vicNow, cacheVars>>
trigVars == <<dispatched>>
waitVars == <<waits>>
vars == <<aggVars, mergeVars, locVars, subVars, vicVars, trigVars, waitVars>>

\* ---------------------------------------------------------------- bounds
MaxCycles == 4
MaxClock == 3
MaxLen == 3
MaxExp == 2
MaxNow == 2

\* ------------------------------------------------------- alert records
\* An AlertLite as far as the merge reads it: clusterId ("" stands for a
\* missing or empty one), expiresAt (a number, missing, or a value that
\* Number() turns into NaN) and the source list it came from.
Rec(id, kind, n, src) ==
  [clusterId |-> id, expKind |-> kind, expiresAt |-> n, src |-> src]

ClusterIds == {"", "c1", "c2"}

RecSet(src) ==
  {Rec(id, "num", n, src) : id \in ClusterIds, n \in 1..MaxExp}
    \cup {Rec(id, k, 0, src) : id \in ClusterIds, k \in {"missing", "nonnum"}}

\* Number(a?.expiresAt || 0)
NumExpiresAt(a) ==
  CASE a.expKind = "num" -> [nan |-> FALSE, n |-> a.expiresAt]
    [] a.expKind = "missing" -> [nan |-> FALSE, n |-> 0]
    [] OTHER -> [nan |-> TRUE, n |-> 0]

\* x > y and x >= y on JavaScript numbers: false as soon as one is NaN
NumGT(x, y) == ~x.nan /\ ~y.nan /\ x.n > y.n
\* a comparison that is false on equal numbers where the code has >=
NumGEStrict(x, y) == ~x.nan /\ ~y.nan /\ x.n > y.n
NumGE(x, y) == ~x.nan /\ ~y.nan /\ x.n >= y.n

\* the filter with >= in place of >
unexpiredGE(a, now) == NumGE(NumExpiresAt(a), [nan |-> FALSE, n |-> now])

\* [...backend, ...weather].filter(a => Number(a?.expiresAt || 0) > now)
unexpired(a, now) == NumGT(NumExpiresAt(a), [nan |-> FALSE, n |-> now])
mergedRaw(backend, weather, now) ==
  SelectSeq(backend \o weather, LAMBDA a : unexpired(a, now))

\* the later record always replaces the earlier one
keepLast(a, prev) == a

\* const keep = Number(a.expiresAt) >= Number(prev.expiresAt) ? a : prev
keep(a, prev) == IF NumGE(NumExpiresAt(a), NumExpiresAt(prev)) THEN a ELSE prev

\* a loop body without `if (!id) continue`: the empty id is a key like another
byIdSetAnyId(m, a) ==
  IF \E i \in DOMAIN m : m[i].clusterId = a.clusterId
  THEN LET i == CHOOSE j \in DOMAIN m : m[j].clusterId = a.clusterId
       IN [m EXCEPT ![i] = keep(a, m[i])]
  ELSE Append(m, a)

\* One iteration of the byId loop.  The Map is a sequence in insertion order:
\* Map.set on a present key replaces the value and keeps the position.
byIdSet(m, a) ==
  IF a.clusterId = "" THEN m
  ELSE IF \E i \in DOMAIN m : m[i].clusterId = a.clusterId
       THEN LET i == CHOOSE j \in DOMAIN m : m[j].clusterId = a.clusterId
            IN [m EXCEPT ![i] = keep(a, m[i])]
       ELSE Append(m, a)

RECURSIVE byId(_, _)
byId(m, list) ==
  IF list = <<>> THEN m ELSE byId(byIdSet(m, Head(list)), Tail(list))

\* a sort that leaves the records in insertion order
sortInsertLast(s, a) == Append(s, a)

\* merged.sort((x, y) => Number(y.expiresAt) - Number(x.expiresAt)): a stable
\* sort; a is placed after every element the comparator does not put after it.
sortInsert(s, a) ==
  LET before == {i \in DOMAIN s : NumExpiresAt(s[i]).n >= NumExpiresAt(a).n}
      k == IF before = {} THEN 0 ELSE CHOOSE i \in before : \A j \in before : j <= i
  IN SubSeq(s, 1, k) \o <<a>> \o SubSeq(s, k + 1, Len(s))

\* a sort that puts the last record first whatever its expiresAt
RECURSIVE sortLastFirst(_)
sortLastFirst(list) ==
  IF list = <<>> THEN <<>>
  ELSE <<list[Len(list)]>> \o sortLastFirst(SubSeq(list, 1, Len(list) - 1))

RECURSIVE sortDesc(_)
sortDesc(list) ==
  IF list = <<>> THEN <<>>
  ELSE sortInsert(sortDesc(SubSeq(list, 1, Len(list) - 1)), list[Len(list)])

\* steps 3 and 4 of fetchOnce
mergeAlerts(backend, weather, now) ==
  sortDesc(byId(<<>>, mergedRaw(backend, weather, now)))

\* ------------------------------------------------------------ aggregator
\* Date.now(), which is never 0, and Math.floor(Date.now() / 1000)
DateNow == (clock + 1) * 500
nowSec == DateNow \div 1000

\* what a task of the aggregator handles: a call of start or stop, the
\* interval firing, or an event dispatched while document.visibilityState is vs
Event(ev, vs) == [ev |-> ev, vs |-> vs]
NoEvent == Event("none", "visible")

AllListeners ==
  {<<"window", "cs:alerts:maybeChanged">>, <<"window", "cs:weather:list">>,
   <<"window", "focus">>, <<"document", "visibilitychange">>}

\* Values of localStorage "cs.weather.alerts" as the other producer leaves it
WeatherValues ==
  { [kind |-> "absent", list |-> <<>>],
    [kind |-> "corrupt", list |-> <<>>],
    [kind |-> "list", list |-> <<Rec("c1", "num", 2, "w")>>],
    [kind |-> "list", list |-> <<Rec("c2", "num", 1, "w")>>] }

\* What the backend answers: a body that parses to a payload with an alerts
\* array, one that parses to something without it, one that does not parse.
BackendBodies ==
  { [kind |-> "alerts", alerts |-> <<>>],
    [kind |-> "alerts", alerts |-> <<Rec("c1", "num", 1, "b")>>],
    [kind |-> "alerts", alerts |-> <<Rec("c2", "num", 1, "b"), Rec("c1", "num", 2, "b")>>],
    [kind |-> "alerts", alerts |-> <<Rec("c3", "missing", 0, "b"), Rec("c4", "nonnum", 0, "b")>>],
    [kind |-> "noalerts", alerts |-> <<>>],
    [kind |-> "unparseable", alerts |-> <<>>] }

\* JSON.parse(localStorage.getItem("cs.weather.alerts") || "[]"), guarded
readWeather(v) == IF v.kind = "list" THEN v.list ELSE <<>>

\* Array.isArray(data?.alerts) ? data.alerts : []
backendOf(body) == IF body.kind = "alerts" THEN body.alerts ELSE <<>>

Live(c) == cyc[c].pc \in {"fetch", "json"}
\* the rejection of an aborted fetch is delivered before any other task runs
NoAbortPending == \A c \in DOMAIN cyc : ~(Live(c) /\ cyc[c].aborted)

\* inflight.abort()
abortInflight(cs, inf) == IF inf # 0 THEN [cs EXCEPT ![inf].aborted = TRUE] ELSE cs

\* fetchOnce up to its first await: cancel the handle held, take a new one
fetchOnceBegin(cs, inf) ==
  [cyc |-> Append(abortInflight(cs, inf), [pc |-> "fetch", aborted |-> FALSE]),
   inflight |-> Len(cs) + 1]

storeVars == <<lsAlertsList, lsAlertsTotal, lsAlertsUpdatedAt>>
eventVars == <<nEvAlerts, nEvList, evList>>

\* a trigger runs fetchOnce
fetchOnce ==
  /\ Len(cyc) < MaxCycles
  /\ LET b == fetchOnceBegin(cyc, inflight)
     IN /\ cyc' = b.cyc
        /\ inflight' = b.inflight
  /\ UNCHANGED <<timer, intervals, listeners, storeVars, eventVars, errLog, lastCall, clock>>

\* a catch clause that does not tell an AbortError from a failure
cycleCancelledLogged(c) ==
  /\ cyc' = [cyc EXCEPT ![c].pc = "cancelled"]
  /\ errLog' = errLog + 1
  /\ inflight' = 0
  /\ UNCHANGED <<storeVars, eventVars>>

\* the catch clause for an AbortError, then finally
cycleCancelled(c) ==
  /\ cyc' = [cyc EXCEPT ![c].pc = "cancelled"]
  /\ inflight' = 0
  /\ UNCHANGED <<storeVars, eventVars, errLog>>

\* a failed cycle that publishes an empty list instead of leaving the store alone
cycleFailedReset(c) ==
  /\ cyc' = [cyc EXCEPT ![c].pc = "failed"]
  /\ errLog' = errLog + 1
  /\ inflight' = 0
  /\ lsAlertsList' = <<>>
  /\ lsAlertsTotal' = 0
  /\ lsAlertsUpdatedAt' = DateNow
  /\ nEvAlerts' = nEvAlerts + 1
  /\ nEvList' = nEvList + 1
  /\ evList' = <<>>

\* the catch clause for any other error, then finally
cycleFailed(c) ==
  /\ cyc' = [cyc EXCEPT ![c].pc = "failed"]
  /\ errLog' = errLog + 1
  /\ inflight' = 0
  /\ UNCHANGED <<storeVars, eventVars>>

\* steps 2 to 5 of fetchOnce, then finally
cyclePersist(c, body) ==
  LET merged == mergeAlerts(backendOf(body), readWeather(lsWeather), nowSec)
  IN /\ lsAlertsList' = merged
     /\ lsAlertsTotal' = Len(merged)
     /\ lsAlertsUpdatedAt' = DateNow
     /\ nEvAlerts' = nEvAlerts + 1
     /\ nEvList' = nEvList + 1
     /\ evList' = merged
     /\ cyc' = [cyc EXCEPT ![c].pc = "done"]
     /\ inflight' = 0
     /\ UNCHANGED errLog

\* await fetch(LIST_URL, {signal}) settles
FetchSettle(c, res) ==
  /\ cyc[c].pc = "fetch"
  /\ cyc[c].aborted \/ NoAbortPending
  /\ IF cyc[c].aborted THEN cycleCancelled(c)
     ELSE IF res = "networkError" THEN cycleFailed(c)
     ELSE /\ cyc' = [cyc EXCEPT ![c].pc = "json"]
          /\ UNCHANGED <<inflight, storeVars, eventVars, errLog>>
  /\ UNCHANGED <<timer, intervals, listeners, lsWeather, lastCall, clock>>

\* await res.json() settles
JsonSettle(c, body) ==
  /\ cyc[c].pc = "json"
  /\ cyc[c].aborted \/ NoAbortPending
  /\ IF cyc[c].aborted THEN cycleCancelled(c)
     ELSE IF body.kind = "unparseable" THEN cycleFailed(c)
     ELSE cyclePersist(c, body)
  /\ UNCHANGED <<timer, intervals, listeners, lsWeather, lastCall, clock>>

\* start and stop are calls of the application: they may follow one another
\* within one task, before the continuation of a fetch they aborted has run
stopAlertsPolling ==
  /\ timer' = FALSE
  /\ intervals' = IF timer THEN intervals - 1 ELSE intervals
  /\ listeners' = {}
  /\ cyc' = abortInflight(cyc, inflight)
  /\ inflight' = 0
  /\ lastCall' = "stop"
  /\ UNCHANGED <<lsWeather, storeVars, eventVars, errLog, clock>>

\* a start that does not stop first: the interval set earlier is left running
startKeepsTimer ==
  /\ Len(cyc) < MaxCycles
  /\ timer' = TRUE
  /\ intervals' = intervals + 1
  /\ listeners' = AllListeners
  /\ LET b == fetchOnceBegin(cyc, inflight)
     IN /\ cyc' = b.cyc
        /\ inflight' = b.inflight
  /\ lastCall' = "start"
  /\ UNCHANGED <<lsWeather, storeVars, eventVars, errLog, clock>>

startAlertsPolling ==
  /\ Len(cyc) < MaxCycles
  /\ timer' = TRUE
  /\ intervals' = (IF timer THEN intervals - 1 ELSE intervals) + 1
  /\ listeners' = AllListeners
  /\ LET b == fetchOnceBegin(abortInflight(cyc, inflight), 0)
     IN /\ cyc' = b.cyc
        /\ inflight' = b.inflight
  /\ lastCall' = "start"
  /\ UNCHANGED <<lsWeather, storeVars, eventVars, errLog, clock>>

\* window.setInterval(fetchOnce, REFRESH_MS) fires
TimerTick ==
  /\ NoAbortPending
  /\ intervals > 0
  /\ fetchOnce
  /\ UNCHANGED lsWeather

\* "cs:alerts:maybeChanged" is dispatched
onMaybeChanged ==
  /\ NoAbortPending
  /\ <<"window", "cs:alerts:maybeChanged">> \in listeners
  /\ fetchOnce
  /\ UNCHANGED lsWeather

\* the local producer rewrites "cs.weather.alerts" and dispatches "cs:weather:list"
onWeatherList(w) ==
  /\ NoAbortPending
  /\ lsWeather' = w
  /\ IF <<"window", "cs:weather:list">> \in listeners
     THEN fetchOnce
     ELSE UNCHANGED <<timer, intervals, listeners, inflight, cyc, storeVars,
                      eventVars, errLog, lastCall, clock>>

\* a handler that does not look at document.visibilityState
onVisibleAlways(ev, visibilityState) ==
  /\ NoAbortPending
  /\ ev \in listeners
  /\ fetchOnce
  /\ UNCHANGED lsWeather

\* "focus" on window or "visibilitychange" on document is dispatched
onVisible(ev, visibilityState) ==
  /\ NoAbortPending
  /\ ev \in listeners
  /\ visibilityState = "visible"
  /\ fetchOnce
  /\ UNCHANGED lsWeather

ClockTick ==
  /\ clock < MaxClock
  /\ clock' = clock + 1
  /\ UNCHANGED <<timer, intervals, listeners, inflight, cyc, lsWeather, storeVars,
                 eventVars, errLog, lastCall>>

\* ------------------------------------------------------ location tracker
MaxGeo == 2
MaxPos == 2
MaxPerm == 1

\* a string, or null; a string is its sequence of characters
Null == [isNull |-> TRUE, chars |-> <<>>]
Str(chars) == [isNull |-> FALSE, chars |-> chars]
\* JavaScript truthiness of a string | null
Truthy(v) == ~v.isNull /\ v.chars # <<>>

Digits == <<"0", "1", "2", "3", "4", "5", "6", "7", "8", "9">>
isDigit(ch) == \E i \in DOMAIN Digits : Digits[i] = ch
isSpace(ch) == ch = " "

\* ---- the regular expression of looksLikeCoords, matched from position i;
\* ---- every quantifier of it can be matched greedily
RECURSIVE skipSpaces(_, _)
skipSpaces(cs, i) ==
  IF i <= Len(cs) /\ isSpace(cs[i]) THEN skipSpaces(cs, i + 1) ELSE i

RECURSIVE countDigits(_, _)
countDigits(cs, i) ==
  IF i <= Len(cs) /\ isDigit(cs[i]) THEN 1 + countDigits(cs, i + 1) ELSE 0

\*  -?\d{1,3}\.\d{3,}   the position after the match, 0 when there is none
matchNumber(cs, i) ==
  LET j == IF i <= Len(cs) /\ cs[i] = "-" THEN i + 1 ELSE i
      n == countDigits(cs, j)
      d == j + n
      m == countDigits(cs, d + 1)
  IN IF n >= 1 /\ n <= 3 /\ d <= Len(cs) /\ cs[d] = "." /\ m >= 3
     THEN d + 1 + m ELSE 0

\*  /^\s*-?\d{1,3}\.\d{3,},\s*-?\d{1,3}\.\d{3,}\s*$/.test(val)
looksLikeCoords(val) ==
  IF ~Truthy(val) THEN FALSE
  ELSE LET cs == val.chars
           a == matchNumber(cs, skipSpaces(cs, 1))
           b == IF a # 0 /\ a <= Len(cs) /\ cs[a] = ","
                THEN matchNumber(cs, skipSpaces(cs, a + 1)) ELSE 0
       IN b # 0 /\ skipSpaces(cs, b) = Len(cs) + 1

\* ---- coordinates: a <<lat, lon>> pair in units of 0.00001 degree
CELL_PRECISION == 3
NoCoords == <<>>
NoCell == <<>>
Fixes == { <<-3781360, 14496310>>, <<-3781361, 14496311>>, <<-3781500, 14496500>> }

\* Math.floor(x * 10 ** p) / 10 ** p, kept as the integer it floors to
roundCell(lat, lon) ==
  LET f == 10 ^ (5 - CELL_PRECISION) IN <<lat \div f, lon \div f>>

\* x.toFixed(5) of a coordinate
RECURSIVE digitsOf(_)
digitsOf(n) ==
  IF n < 10 THEN <<Digits[n + 1]>> ELSE Append(digitsOf(n \div 10), Digits[(n % 10) + 1])
toFixed5(x) ==
  LET a == IF x < 0 THEN 0 - x ELSE x
      frac == a % 100000
  IN (IF x < 0 THEN <<"-">> ELSE <<>>) \o digitsOf(a \div 100000) \o <<".">>
       \o << Digits[((frac \div 10000) % 10) + 1], Digits[((frac \div 1000) % 10) + 1],
             Digits[((frac \div 100) % 10) + 1], Digits[((frac \div 10) % 10) + 1],
             Digits[(frac % 10) + 1] >>
\* `${lat.toFixed(5)}, ${lon.toFixed(5)}`: the coordinate fallback the pages
\* used to put in "cs.address"
formatCoords(c) == Str(toFixed5(c[1]) \o <<",", " ">> \o toFixed5(c[2]))

MainSt == Str(<<"1", " ", "M", "a", "i", "n", " ", "S", "t">>)
HighSt == Str(<<"2", "2", " ", "H", "i", "g", "h", " ", "S", "t">>)
\* " -37.813,144.963 ": the shortest decimals the expression accepts, padded
PaddedCoords ==
  Str(<<" ", "-", "3", "7", ".", "8", "1", "3", ",", "1", "4", "4", ".", "9", "6", "3", " ">>)
EmptyStr == Str(<<>>)

\* what "cs.address" may hold when the module loads
StoredAddresses ==
  {Null, EmptyStr, MainSt, PaddedCoords} \cup {formatCoords(c) : c \in {<<-3781360, 14496310>>}}
\* what the geocode endpoint may put in data.address
GeoAddresses ==
  {Null, EmptyStr, MainSt, HighSt, PaddedCoords} \cup {formatCoords(c) : c \in {<<-3781500, 14496500>>}}
GeoResponses ==
  { [kind |-> "networkError", address |-> Null], [kind |-> "badJson", address |-> Null] }
    \cup { [kind |-> "json", address |-> a] : a \in GeoAddresses }

PermissionStates == {"granted", "denied"}

\* the plain read of "cs.address", without the coordinate check
readSavedRaw(coords, saved) ==
  [coords |-> coords, address |-> IF Truthy(saved) THEN saved ELSE Null,
   geocoding |-> FALSE, lastUpdated |-> 0, permission |-> "undefined"]

readSaved(coords, saved) ==
  [coords |-> coords,
   address |-> IF ~Truthy(saved) \/ looksLikeCoords(saved) THEN Null ELSE saved,
   geocoding |-> FALSE, lastUpdated |-> 0, permission |-> "undefined"]

\* a reverseGeocode whose fetch does not observe the signal
reverseGeocodeNoSignal(api, aborted, resp) ==
  IF ~api THEN Null
  ELSE IF resp.kind # "json" THEN Null
  ELSE IF Truthy(resp.address) /\ ~looksLikeCoords(resp.address) THEN resp.address
  ELSE Null

\* the value reverseGeocode resolves with: null without API, null when the
\* fetch or the body read rejects (abort, network error, bad JSON), else the
\* address of the body unless it is empty or looks like coordinates
reverseGeocode(api, aborted, resp) ==
  IF ~api THEN Null
  ELSE IF aborted THEN Null
  ELSE IF resp.kind # "json" THEN Null
  ELSE IF Truthy(resp.address) /\ ~looksLikeCoords(resp.address) THEN resp.address
  ELSE Null

\* The state a task of the tracker works on
World ==
  [snap |-> snap, lsCoords |-> lsCoords, lsAddress |-> lsAddress, published |-> <<>>,
   geo |-> geo, inFlightGeocode |-> inFlightGeocode, ssLastCell |-> ssLastCell]

\* broadcast(): mirror to localStorage, then deliver snap to the subscribers
broadcast(w) ==
  LET writes == Truthy(w.snap.address) /\ ~looksLikeCoords(w.snap.address)
  IN [w EXCEPT
        !.lsCoords = IF w.snap.coords # NoCoords THEN w.snap.coords ELSE @,
        !.lsAddress = IF writes THEN w.snap.address ELSE @,
        !.published = Append(@, [snap |-> w.snap,
                                 wroteAddress |-> IF writes THEN w.snap.address ELSE Null])]

\* inFlightGeocode.abort(); the flag matters only to a call still pending
abortGeocode(g, inf) ==
  IF inf # 0 /\ g[inf].pc = "pending" THEN [g EXCEPT ![inf].aborted = TRUE] ELSE g

\* cell === last && snap.address
throttled(w, cell) == cell = w.ssLastCell /\ Truthy(w.snap.address)

\* maybeGeocode up to its await
maybeGeocodeBegin(w, lat, lon) ==
  LET cell == roundCell(lat, lon)
  IN IF throttled(w, cell) THEN w
     ELSE broadcast([w EXCEPT
            !.geo = Append(abortGeocode(w.geo, w.inFlightGeocode),
                           [cell |-> cell, aborted |-> FALSE, pc |-> "pending", net |-> API]),
            !.inFlightGeocode = Len(w.geo) + 1,
            !.snap = [w.snap EXCEPT !.geocoding = TRUE]])

\* maybeGeocode after its await, for call r resolved with addr
maybeGeocodeEnd(w, r, addr) ==
  broadcast([w EXCEPT
    !.snap = [w.snap EXCEPT !.geocoding = FALSE,
                            !.address = IF ~addr.isNull THEN addr ELSE w.snap.address],
    !.ssLastCell = IF Truthy(addr) THEN w.geo[r].cell ELSE @,
    !.geo = [w.geo EXCEPT ![r].pc = "done", ![r].cell = NoCell]])

Commit(w) ==
  /\ snap' = w.snap
  /\ lsCoords' = w.lsCoords
  /\ lsAddress' = w.lsAddress
  /\ published' = w.published
  /\ geo' = w.geo
  /\ inFlightGeocode' = w.inFlightGeocode
  /\ ssLastCell' = w.ssLastCell

\* a settled reverseGeocode continues before any other task when its promise
\* was settled by abort() or without a fetch
Urgent(r) == geo[r].pc = "pending" /\ (geo[r].aborted \/ ~geo[r].net)
NoGeoAbortPending == \A r \in DOMAIN geo : ~Urgent(r)

\* tick(): ask for a position, then "snap = {...snap, permission: await ...}".
\* MaxPerm bounds the distinct snapshots that wait for a permission query.
tickBody ==
  /\ posPending < MaxPos
  /\ Cardinality(BagToSet(permQ)) < MaxPerm
  /\ posPending' = posPending + 1
  /\ permQ' = permQ (+) SetToBag({snap})

\* a start without the "if (timerId != null) return" of line 156
startNoGuard ==
  /\ locCall' = IF timerId THEN "restart" ELSE "start"
  /\ posPending < MaxPos
  /\ Cardinality(BagToSet(permQ)) < MaxPerm
  /\ posPending' = posPending + 1
  /\ permQ' = permQ (+) SetToBag({snap}) (+) SetToBag({snap})
  /\ timerId' = TRUE
  /\ tickTimers' = tickTimers + 1
  /\ UNCHANGED <<API, snap, inFlightGeocode, geo, lsAddress, lsCoords, ssLastCell,
                 published, runCell, runReqs>>

\* start and stop are calls of the application: they may follow one another
\* within one task, before the continuation of an aborted geocode has run
start ==
  /\ locCall' = IF timerId THEN "restart" ELSE "start"
  /\ IF timerId
     THEN UNCHANGED <<timerId, tickTimers, posPending, permQ>>
     ELSE /\ posPending < MaxPos
          /\ Cardinality(BagToSet(permQ)) < MaxPerm
          /\ posPending' = posPending + 1
          /\ permQ' = permQ (+) SetToBag({snap}) (+) SetToBag({snap})
          /\ timerId' = TRUE
          /\ tickTimers' = tickTimers + 1
  /\ UNCHANGED <<API, snap, inFlightGeocode, geo, lsAddress, lsCoords, ssLastCell,
                 published, runCell, runReqs>>

stop ==
  /\ locCall' = "stop"
  /\ timerId' = FALSE
  /\ tickTimers' = IF timerId THEN tickTimers - 1 ELSE tickTimers
  /\ geo' = abortGeocode(geo, inFlightGeocode)
  /\ inFlightGeocode' = 0
  /\ UNCHANGED <<API, snap, posPending, permQ, lsAddress, lsCoords, ssLastCell,
                 published, runCell, runReqs>>

\* the interval fires
tick ==
  /\ NoGeoAbortPending
  /\ tickTimers > 0
  /\ tickBody
  /\ UNCHANGED <<API, snap, timerId, tickTimers, inFlightGeocode, geo, lsAddress, lsCoords,
                 ssLastCell, published, locCall, runCell, runReqs>>

\* getCurrentPosition answers with a fix
onPosition(c) ==
  /\ NoGeoAbortPending
  /\ posPending > 0
  /\ Len(geo) < MaxGeo
  /\ LET w1 == broadcast([World EXCEPT
                 !.snap = [snap EXCEPT !.coords = c, !.lastUpdated = DateNow]])
         w2 == maybeGeocodeBegin(w1, c[1], c[2])
         cell == roundCell(c[1], c[2])
         issued == IF Len(w2.geo) > Len(geo) /\ API THEN 1 ELSE 0
     IN /\ Commit(w2)
        /\ runCell' = cell
        /\ runReqs' = (IF cell = runCell THEN runReqs ELSE 0) + issued
  /\ posPending' = posPending - 1
  /\ UNCHANGED <<API, timerId, tickTimers, permQ, locCall>>

\* getCurrentPosition answers with an error
onError ==
  /\ NoGeoAbortPending
  /\ posPending > 0
  /\ Commit(broadcast(World))
  /\ posPending' = posPending - 1
  /\ UNCHANGED <<API, timerId, tickTimers, permQ, locCall, runCell, runReqs>>

\* the await of reverseGeocode in maybeGeocode resumes
GeoSettle(r, resp) ==
  /\ geo[r].pc = "pending"
  /\ Urgent(r) \/ NoGeoAbortPending
  /\ Commit(maybeGeocodeEnd(World, r, reverseGeocode(geo[r].net, geo[r].aborted, resp)))
  /\ UNCHANGED <<API, timerId, tickTimers, posPending, permQ, locCall, runCell, runReqs>>

\* queryPermission() resolves for an assignment that spread the snapshot old
PermissionSettle(old, state) ==
  /\ NoGeoAbortPending
  /\ BagIn(old, permQ)
  /\ Commit(broadcast([World EXCEPT !.snap = [old EXCEPT !.permission = state]]))
  /\ permQ' = permQ (-) SetToBag({old})
  /\ UNCHANGED <<API, timerId, tickTimers, posPending, locCall, runCell, runReqs>>

\* ---- subscribers.  A listener is a function of the caller: "f1" and "f2"
\* return, "bad" throws whenever it is called.
MaxHandles == 3
Fns == {"f1", "f2", "bad"}
Throws(fn) == fn = "bad"
NoSubCall == [op |-> "none", fn |-> "", h |-> 0]

\* subs.forEach(fn => fn(s)): the calls made, in insertion order; the first
\* listener that throws ends the loop
RECURSIVE forEachSubs(_, _)
forEachSubs(ss, s) ==
  IF ss = <<>> THEN <<>>
  ELSE IF Throws(Head(ss)) THEN <<[fn |-> Head(ss), snap |-> s]>>
  ELSE <<[fn |-> Head(ss), snap |-> s]>> \o forEachSubs(Tail(ss), s)

\* the listener calls of the broadcasts of one task, pubs being what they
\* published; a broadcast whose loop threw ends the task
RECURSIVE deliverAll(_, _)
deliverAll(ss, pubs) ==
  IF pubs = <<>> THEN <<>>
  ELSE LET calls == forEachSubs(ss, Head(pubs).snap)
       IN IF calls # <<>> /\ Throws(calls[Len(calls)].fn) THEN calls
          ELSE calls \o deliverAll(ss, Tail(pubs))

\* subs.add(fn); try { fn(snap) } catch {}; return () => { subs.delete(fn) }
subscribe(fn) ==
  /\ Len(handles) < MaxHandles
  /\ subs' = IF \E i \in DOMAIN subs : subs[i] = fn THEN subs ELSE Append(subs, fn)
  /\ handles' = Append(handles, [fn |-> fn, called |-> FALSE])
  /\ invoked' = <<[fn |-> fn, snap |-> snap]>>
  /\ subCall' = [op |-> "subscribe", fn |-> fn, h |-> Len(handles) + 1]

\* the closure returned by the h-th subscribe is called: subs.delete(fn)
unsubscribe(h) ==
  /\ subs' = SelectSeq(subs, LAMBDA f : f # handles[h].fn)
  /\ handles' = [handles EXCEPT ![h].called = TRUE]
  /\ invoked' = <<>>
  /\ subCall' = [op |-> "unsubscribe", fn |-> handles[h].fn, h |-> h]

\* what a task of the tracker does to the subscribers: its broadcasts call them
Deliver ==
  /\ invoked' = deliverAll(subs, published')
  /\ subCall' = [op |-> "broadcast", fn |-> "", h |-> 0]
  /\ UNCHANGED <<subs, handles>>

\* a task of the tracker that does not broadcast
Quiet ==
  /\ invoked' = <<>>
  /\ subCall' = NoSubCall
  /\ UNCHANGED <<subs, handles>>

SubIdle ==
  subs = <<>> /\ handles = <<>> /\ invoked = <<>> /\ subCall = NoSubCall /\ waits = <<>>

\* ---- waitForFirstFix.  The listener of the w-th call is WaitFns[w]; it
\* ---- never throws.
MaxWaits == 1
WaitFns == <<"w1", "w2">>

\* the broadcasts of one task, pubs being what they published: each calls the
\* listeners in subs as it finds them; the listener of a pending wait that
\* is handed coordinates clears its timeout, unsubscribes and resolves; a
\* broadcast whose loop threw ends the task
RECURSIVE runBroadcasts(_, _, _)
runBroadcasts(ss, ws, pubs) ==
  IF pubs = <<>> THEN [subs |-> ss, waits |-> ws, calls |-> <<>>]
  ELSE LET s == Head(pubs).snap
           calls == forEachSubs(ss, s)
           hit(w) == /\ ws[w].pc = "pending"
                     /\ \E k \in DOMAIN calls : calls[k].fn = WaitFns[w]
                     /\ s.coords # NoCoords
           ws2 == [w \in DOMAIN ws |->
                     IF hit(w)
                     THEN [ws[w] EXCEPT !.pc = "resolved", !.how = "listener",
                                        !.val = s.coords, !.timer = FALSE]
                     ELSE ws[w]]
           ss2 == SelectSeq(ss, LAMBDA f : ~\E w \in DOMAIN ws : hit(w) /\ WaitFns[w] = f)
           thrown == calls # <<>> /\ Throws(calls[Len(calls)].fn)
           rest == IF thrown THEN [subs |-> ss2, waits |-> ws2, calls |-> <<>>]
                   ELSE runBroadcasts(ss2, ws2, Tail(pubs))
       IN [subs |-> rest.subs, waits |-> rest.waits, calls |-> calls \o rest.calls]

\* a fix with coordinates c is published: the pending waits that saw no fix
\* yet note it ("seen" is not a variable of the code)
noteFix(ws, c) ==
  [w \in DOMAIN ws |->
     IF ws[w].pc = "pending" /\ ws[w].seen = NoCoords THEN [ws[w] EXCEPT !.seen = c]
     ELSE ws[w]]

\* what a task of the tracker does to the subscribers and the waits
WaitBroadcast(ws) ==
  LET r == runBroadcasts(subs, ws, published')
  IN /\ subs' = r.subs
     /\ waits' = r.waits
     /\ invoked' = r.calls
     /\ subCall' = [op |-> "broadcast", fn |-> "", h |-> 0]
     /\ UNCHANGED handles

\* onPosition when a listener throws: the exception of the first broadcast
\* leaves onPosition before maybeGeocode is called
onPositionThrown(c) ==
  /\ NoGeoAbortPending
  /\ posPending > 0
  /\ Commit(broadcast([World EXCEPT
              !.snap = [snap EXCEPT !.coords = c, !.lastUpdated = DateNow]]))
  /\ runCell' = roundCell(c[1], c[2])
  /\ runReqs' = IF roundCell(c[1], c[2]) = runCell THEN runReqs ELSE 0
  /\ posPending' = posPending - 1
  /\ UNCHANGED <<API, timerId, tickTimers, permQ, locCall>>

\* getCurrentPosition answers with a fix, with subscribers
PositionTask(c) ==
  /\ IF \E i \in DOMAIN subs : Throws(subs[i]) THEN onPositionThrown(c) ELSE onPosition(c)
  /\ WaitBroadcast(noteFix(waits, c))

\* waitForFirstFix(timeoutMs): resolved at once when snap.coords is set, else
\* a timeout is set and a listener subscribed, which subscribe() calls with
\* the snapshot (no coordinates: it does nothing)
waitForFirstFix ==
  /\ Len(waits) < MaxWaits
  /\ IF snap.coords # NoCoords
     THEN /\ waits' = Append(waits, [pc |-> "resolved", how |-> "immediate", val |-> snap.coords,
                                     timer |-> FALSE, seen |-> NoCoords])
          /\ invoked' = <<>>
          /\ UNCHANGED subs
     ELSE /\ waits' = Append(waits, [pc |-> "pending", how |-> "none", val |-> NoCoords,
                                     timer |-> TRUE, seen |-> NoCoords])
          /\ subs' = Append(subs, WaitFns[Len(waits) + 1])
          /\ invoked' = <<[fn |-> WaitFns[Len(waits) + 1], snap |-> snap]>>
  /\ subCall' = [op |-> "wait", fn |-> "", h |-> 0]
  /\ UNCHANGED handles

\* the timeout of the w-th call fires: off(); resolve(getCoords())
WaitTimeout(w) ==
  /\ NoGeoAbortPending
  /\ waits[w].timer
  /\ subs' = SelectSeq(subs, LAMBDA f : f # WaitFns[w])
  /\ waits' = [waits EXCEPT ![w] = [@ EXCEPT !.pc = "resolved", !.how = "timeout",
                                             !.val = snap.coords, !.timer = FALSE]]
  /\ invoked' = <<>>
  /\ subCall' = [op |-> "timeout", fn |-> "", h |-> 0]
  /\ UNCHANGED handles

\* module load of LocationBus.ts (lines 93-96)
LocInit ==
  /\ API \in BOOLEAN
  /\ lsAddress \in StoredAddresses
  /\ lsCoords \in {NoCoords, <<-3781360, 14496310>>}
  /\ snap = readSaved(lsCoords, lsAddress)
  /\ timerId = FALSE
  /\ tickTimers = 0
  /\ inFlightGeocode = 0
  /\ geo = <<>>
  /\ posPending = 0
  /\ permQ = EmptyBag
  /\ ssLastCell = NoCell
  /\ published = <<>>
  /\ locCall = "none"
  /\ runCell = NoCell
  /\ runReqs = 0

LocIdle == LocInit /\ API /\ lsAddress = Null /\ lsCoords = NoCoords

\* ---------------------------------------------------- incident classifier
\* src/services/vicEmergency.ts, lines 1-317.  Latitudes and longitudes are in
\* units of 0.00001 degree, distances in millimetres.

\* ---- JSON values as the geometry code reads them: a number, a string that
\* ---- is not a number, undefined (a missing member or element), an object,
\* ---- an array; "nan" is the NaN that arithmetic produces
Jn(n) == [k |-> "num", n |-> n, items |-> <<>>]
Js == [k |-> "str", n |-> 0, items |-> <<>>]
Ju == [k |-> "undef", n |-> 0, items |-> <<>>]
Jo == [k |-> "obj", n |-> 0, items |-> <<>>]
Jnan == [k |-> "nan", n |-> 0, items |-> <<>>]
Ja(items) == [k |-> "arr", n |-> 0, items |-> items]

\* Array.isArray(v), v?.[i] (i counted from 1), and "v is falsy"
isArray(v) == v.k = "arr"
elem(v, i) == IF isArray(v) /\ i <= Len(v.items) THEN v.items[i] ELSE Ju
falsy(v) == v.k \in {"undef", "nan"} \/ (v.k = "num" /\ v.n = 0)

\* a geometry: its type, coordinates and geometries members
Geom(t, coords) == [type |-> t, coordinates |-> coords, isColl |-> FALSE, geometries |-> <<>>]
GeomColl(gs) ==
  [type |-> "GeometryCollection", coordinates |-> Ju, isColl |-> TRUE, geometries |-> gs]
NoGeom == Geom("null", Ju)

\* the result of centroid(): null, [lat, lon], or a TypeError thrown
CNull == [kind |-> "null", lat |-> Ju, lon |-> Ju]
CPt(lat, lon) == [kind |-> "pt", lat |-> lat, lon |-> lon]
CThrow == [kind |-> "throw", lat |-> Ju, lon |-> Ju]

\* sx += v over the values vs, then sx / n: a number when every value is one,
\* else NaN (undefined adds to NaN, a string concatenates and divides to NaN);
\* the mean is kept to the unit
RECURSIVE sumOf(_)
sumOf(vs) == IF vs = <<>> THEN 0 ELSE Head(vs).n + sumOf(Tail(vs))
meanOf(vs) ==
  IF \A i \in DOMAIN vs : vs[i].k = "num" THEN Jn(sumOf(vs) \div Len(vs)) ELSE Jnan

\* the loop "for (const p of list) { if (!Array.isArray(p) || p.length < 2)
\* continue; const [lon, lat] = p; sx += lat; sy += lon; n++ }" and its result
pairsOf(list) == SelectSeq(list, LAMBDA p : isArray(p) /\ Len(p.items) >= 2)
meanPoint(list) ==
  LET ps == pairsOf(list)
  IN IF ps = <<>> THEN CNull
     ELSE CPt(meanOf([i \in DOMAIN ps |-> ps[i].items[2]]),
              meanOf([i \in DOMAIN ps |-> ps[i].items[1]]))

\* "for (const line of coordinates) for (const p of line || [])": the points
\* visited; a line that is truthy and not iterable throws
iterable(line) == falsy(line) \/ line.k \in {"arr", "str"}
RECURSIVE flatten(_)
flatten(lines) ==
  IF lines = <<>> THEN <<>>
  ELSE (IF isArray(Head(lines)) THEN Head(lines).items ELSE <<>>) \o flatten(Tail(lines))

\* the polygon-ish tail of centroid(): the first ring
lastRingOf(geom) ==
  LET cs == geom.coordinates
      n == IF isArray(cs) THEN Len(cs.items) ELSE 0
      last == IF n = 0 THEN Ju ELSE cs.items[n]
  IN IF geom.type = "Polygon" THEN last
     ELSE IF geom.type = "MultiPolygon" THEN elem(last, 1)
     ELSE Ju
ringOf(geom) ==
  IF geom.type = "Polygon" THEN elem(geom.coordinates, 1)
  ELSE IF geom.type = "MultiPolygon" THEN elem(elem(geom.coordinates, 1), 1)
  ELSE Ju
ringCentroid(geom) ==
  LET ring == ringOf(geom)
  IN IF isArray(ring) /\ ring.items # <<>> THEN meanPoint(ring.items) ELSE CNull

RECURSIVE centroid(_)
centroid(geom) ==
  LET t == geom.type
      cs == geom.coordinates
      nonEmpty == isArray(cs) /\ cs.items # <<>>
  IN IF t = "null" THEN CNull
     ELSE IF t = "GeometryCollection" /\ geom.isColl THEN
       LET sub == [i \in DOMAIN geom.geometries |-> centroid(geom.geometries[i])]
           pts == SelectSeq(sub, LAMBDA c : c.kind = "pt")
       IN IF \E i \in DOMAIN sub : sub[i].kind = "throw" THEN CThrow
          ELSE IF pts = <<>> THEN CNull
          ELSE CPt(meanOf([i \in DOMAIN pts |-> pts[i].lat]),
                   meanOf([i \in DOMAIN pts |-> pts[i].lon]))
     ELSE IF t = "Point" /\ isArray(cs) THEN CPt(elem(cs, 2), elem(cs, 1))
     ELSE IF t \in {"MultiPoint", "LineString"} /\ nonEmpty /\ pairsOf(cs.items) # <<>>
       THEN meanPoint(cs.items)
     ELSE IF t = "MultiLineString" /\ nonEmpty /\ \E i \in DOMAIN cs.items : ~iterable(cs.items[i])
       THEN CThrow
     ELSE IF t = "MultiLineString" /\ nonEmpty /\ pairsOf(flatten(cs.items)) # <<>>
       THEN meanPoint(flatten(cs.items))
     ELSE ringCentroid(geom)

\* ---- distances.  R * pi / 180 is 111194.9266 m per degree: 1111949 mm per
\* ---- 1000 units.  A distance is a number of millimetres or NaN.
DNaN == [nan |-> TRUE, mm |-> 0]
arcMm(d) == (d \div 1000) * 1111949 + ((d % 1000) * 1111949) \div 1000
abs(x) == IF x < 0 THEN 0 - x ELSE x

\* haversineMeters(lat1, lon1, lat2, lon2) for numbers lat1, lon1 and values
\* lat2, lon2: NaN when lat2 or lon2 is not a number; on one meridian
\* (dLon = 0) a = sin(dLat / 2) ** 2 and the result is R * |dLat|.  The model
\* keeps its origins and features on one meridian.
haversineMeters(lat1, lon1, lat2, lon2) ==
  CASE lat2.k # "num" \/ lon2.k # "num" -> DNaN
    [] lat2.k = "num" /\ lon2.k = "num" /\ lon2.n = lon1 ->
         [nan |-> FALSE, mm |-> arcMm(abs(lat2.n - lat1))]

\* ---- strings of the property bag: Str / Null as above, undefined being Null
UpperCase == <<"A", "B", "C", "D", "E", "F", "G", "H", "I", "J", "K", "L", "M",
               "N", "O", "P", "Q", "R", "S", "T", "U", "V", "W", "X", "Y", "Z">>
LowerCase == <<"a", "b", "c", "d", "e", "f", "g", "h", "i", "j", "k", "l", "m",
               "n", "o", "p", "q", "r", "s", "t", "u", "v", "w", "x", "y", "z">>
lowerChar(ch) ==
  IF \E i \in DOMAIN UpperCase : UpperCase[i] = ch
  THEN LowerCase[CHOOSE i \in DOMAIN UpperCase : UpperCase[i] = ch] ELSE ch
\* String(v || "").toLowerCase(), as characters
sameCase(v) == IF Truthy(v) THEN v.chars ELSE <<>>
lowerOf(v) == IF Truthy(v) THEN [i \in DOMAIN v.chars |-> lowerChar(v.chars[i])] ELSE <<>>
\* s.includes(sub)
includes(s, sub) ==
  \E i \in 1..(Len(s) - Len(sub) + 1) : SubSeq(s, i, i + Len(sub) - 1) = sub
\* a || b
orElse(a, b) == IF Truthy(a) THEN a ELSE b

\* the keywords of priorityFromVic and categoryFromVic
kw ==
  [watchAndAct |-> <<"w", "a", "t", "c", "h", " ", "a", "n", "d", " ", "a", "c", "t">>,
   emergency |-> <<"e", "m", "e", "r", "g", "e", "n", "c", "y">>,
   evacuate |-> <<"e", "v", "a", "c", "u", "a", "t", "e">>,
   warning |-> <<"w", "a", "r", "n", "i", "n", "g">>,
   severe |-> <<"s", "e", "v", "e", "r", "e">>,
   immediate |-> <<"i", "m", "m", "e", "d", "i", "a", "t", "e">>,
   advice |-> <<"a", "d", "v", "i", "c", "e">>,
   communityInformation |-> <<"c", "o", "m", "m", "u", "n", "i", "t", "y", " ", "i", "n",
       "f", "o", "r", "m", "a", "t", "i", "o", "n">>,
   moderate |-> <<"m", "o", "d", "e", "r", "a", "t", "e">>,
   responding |-> <<"r", "e", "s", "p", "o", "n", "d", "i", "n", "g">>,
   requestForAssistance |-> <<"r", "e", "q", "u", "e", "s", "t", " ", "f", "o", "r", " ",
       "a", "s", "s", "i", "s", "t", "a", "n", "c", "e">>,
   underControl |-> <<"u", "n", "d", "e", "r", " ", "c", "o", "n", "t", "r", "o", "l">>,
   safe |-> <<"s", "a", "f", "e">>,
   met |-> <<"m", "e", "t">>,
   wind |-> <<"w", "i", "n", "d">>,
   weather |-> <<"w", "e", "a", "t", "h", "e", "r">>,
   fire |-> <<"f", "i", "r", "e">>,
   tree |-> <<"t", "r", "e", "e">>,
   other |-> <<"o", "t", "h", "e", "r">>,
   security |-> <<"s", "e", "c", "u", "r", "i", "t", "y">>,
   rescue |-> <<"r", "e", "s", "c", "u", "e">>,
   burn |-> <<"b", "u", "r", "n">>]

\* the table without its "responding" and "request for assistance" row
priorityNoResponding(props) ==
  LET level == lowerOf(orElse(props.status, orElse(props.category1,
                         orElse(props.name, props.sourceTitle))))
      severity == lowerOf(props.severity)
      urgency == lowerOf(props.urgency)
  IN IF includes(level, kw.watchAndAct) \/ includes(level, kw.emergency)
          \/ includes(level, kw.evacuate) THEN "CRITICAL"
     ELSE IF includes(level, kw.warning) \/ severity = kw.severe \/ urgency = kw.immediate
       THEN "HIGH"
     ELSE IF includes(level, kw.underControl) \/ includes(level, kw.safe) THEN "LOW"
     ELSE "MEDIUM"

priorityFromVic(props) ==
  LET level == lowerOf(orElse(props.status, orElse(props.category1,
                         orElse(props.name, props.sourceTitle))))
      severity == lowerOf(props.severity)
      urgency == lowerOf(props.urgency)
  IN IF includes(level, kw.watchAndAct) \/ includes(level, kw.emergency)
          \/ includes(level, kw.evacuate) THEN "CRITICAL"
     ELSE IF includes(level, kw.warning) \/ severity = kw.severe \/ urgency = kw.immediate
       THEN "HIGH"
     ELSE IF includes(level, kw.advice) \/ includes(level, kw.communityInformation)
               \/ severity = kw.moderate THEN "MEDIUM"
     ELSE IF includes(level, kw.responding) \/ includes(level, kw.requestForAssistance)
       THEN "HIGH"
     ELSE IF includes(level, kw.underControl) \/ includes(level, kw.safe) THEN "LOW"
     ELSE "MEDIUM"

\* a table whose "tree" and "other" row files the incident under TRAFFIC
categoryWithTraffic(props) ==
  LET c1 == lowerOf(props.category1)
      c2 == lowerOf(props.category2)
      feedType == lowerOf(props.feedType)
  IN IF includes(c1, kw.met) \/ includes(c2, kw.wind) \/ includes(c2, kw.weather) THEN "WEATHER"
     ELSE IF includes(c1, kw.fire) \/ includes(c2, kw.fire) THEN "SAFETY"
     ELSE IF includes(c1, kw.tree) \/ includes(c2, kw.tree) \/ includes(c1, kw.other) THEN "TRAFFIC"
     ELSE "SAFETY"

categoryFromVic(props) ==
  LET c1 == lowerOf(props.category1)
      c2 == lowerOf(props.category2)
      feedType == lowerOf(props.feedType)
  IN IF includes(c1, kw.met) \/ includes(c2, kw.wind) \/ includes(c2, kw.weather) THEN "WEATHER"
     ELSE IF includes(c1, kw.fire) \/ includes(c2, kw.fire) THEN "SAFETY"
     ELSE IF includes(c1, kw.tree) \/ includes(c2, kw.tree) \/ includes(c1, kw.other) THEN "INFRA"
     ELSE IF includes(c1, kw.security) \/ includes(c1, kw.rescue)
               \/ includes(c2, kw.security) \/ includes(c2, kw.rescue) THEN "SAFETY"
     ELSE IF includes(c1, kw.burn) \/ includes(feedType, kw.burn) THEN "SAFETY"
     ELSE "SAFETY"

\* `${a}${sep}${b}`
joined(a, sep, b) == Str(a.chars \o sep \o b.chars)

extractTitle(props) ==
  IF Truthy(props.webHeadline) THEN props.webHeadline
  ELSE IF Truthy(props.sourceTitle) /\ Truthy(props.action)
    THEN joined(props.sourceTitle, <<" ", "-", " ">>, props.action)
  ELSE IF Truthy(props.name) /\ Truthy(props.category2)
    THEN joined(props.category2, <<" ">>, props.name)
  ELSE IF Truthy(props.category1) /\ Truthy(props.category2)
    THEN joined(props.category1, <<" ", "-", " ">>, props.category2)
  ELSE orElse(props.category1, orElse(props.category2, orElse(props.sourceTitle,
              orElse(props.name,
                Str(<<"E", "m", "e", "r", "g", "e", "n", "c", "y", " ",
                      "I", "n", "c", "i", "d", "e", "n", "t">>)))))

\* cleanDescription: which of its three sources the text comes from
cleanDescription(props) ==
  IF Truthy(props.text) THEN "text" ELSE IF Truthy(props.webBody) THEN "webBody" ELSE "default"

\* pickLocation(props, lat, lon): the location property when there is one,
\* else the centroid to three decimals, else "Victoria".  lat.toFixed is not
\* a function when lat is a string, an array or an object: a TypeError.
pickLocation(props, lat, lon) ==
  IF Truthy(props.location) THEN [kind |-> "property", lat |-> Ju, lon |-> Ju]
  ELSE IF lat.k # "undef" /\ lon.k # "undef"
    THEN IF lat.k \in {"num", "nan"} /\ lon.k \in {"num", "nan"}
         THEN [kind |-> "centroid", lat |-> lat, lon |-> lon]
         ELSE [kind |-> "throw", lat |-> Ju, lon |-> Ju]
  ELSE [kind |-> "Victoria", lat |-> Ju, lon |-> Ju]

\* Date strings: "1970-01-01T00:01:00Z" and "1970-01-01T00:02:00Z" parse to
\* 60000 and 120000; any other string of the model does not parse
Iso(m) == Str(<<"1", "9", "7", "0", "-", "0", "1", "-", "0", "1", "T", "0", "0", ":",
                "0", m, ":", "0", "0", "Z">>)
DateParse(v) ==
  IF v = Iso("1") THEN [nan |-> FALSE, ms |-> 60000]
  ELSE IF v = Iso("2") THEN [nan |-> FALSE, ms |-> 120000]
  ELSE [nan |-> TRUE, ms |-> 0]

\* parseWhen(props) at the time now of Date.now()
RECURSIVE firstParsed(_, _)
firstParsed(candidates, now) ==
  IF candidates = <<>> THEN now
  ELSE IF Truthy(Head(candidates)) /\ ~DateParse(Head(candidates)).nan
    THEN DateParse(Head(candidates)).ms
  ELSE firstParsed(Tail(candidates), now)
parseWhen(props, now) ==
  firstParsed(<<props.updated, props.created, props.timestamp, props.time, props.end>>, now)

\* String(p.id || p.sourceId || p.eventId || `${title}-${when}`)
\*   .replace(/[^a-zA-Z0-9-_]/g, "")
isIdChar(ch) ==
  \/ isDigit(ch) \/ ch \in {"-", "_"}
  \/ \E i \in DOMAIN UpperCase : UpperCase[i] = ch \/ LowerCase[i] = ch
idOf(props, title, when) ==
  LET rawId == orElse(props.id, orElse(props.sourceId, orElse(props.eventId,
                 joined(title, <<"-">>, Str(digitsOf(when))))))
  IN SelectSeq(rawId.chars, isIdChar)

\* ---- the property bag of a feature: the members the classifier reads
\* ---- (cap.severity and cap.urgency as severity and urgency)
NoProps ==
  [id |-> Null, sourceId |-> Null, eventId |-> Null, webHeadline |-> Null,
   sourceTitle |-> Null, action |-> Null, name |-> Null, category1 |-> Null,
   category2 |-> Null, status |-> Null, feedType |-> Null, severity |-> Null,
   urgency |-> Null, text |-> Null, webBody |-> Null, location |-> Null,
   updated |-> Null, created |-> Null, timestamp |-> Null, time |-> Null, end |-> Null]

\* a feature: geometry, properties, and what the properties member is
\* ("object", "missing", or "other" for a string or a number, whose members
\* all read as undefined)
Feature(geom, props) == [geometry |-> geom, properties |-> props, bag |-> "object"]
BareFeature(geom, bag) == [geometry |-> geom, properties |-> NoProps, bag |-> bag]

\* radii, in metres
RADIUS_KM == 5
EXT_RADIUS_KM == 30
max(a, b) == IF a >= b THEN a ELSE b
R1_METERS == max(0, RADIUS_KM) * 1000
R2_METERS_RAW == max(0, EXT_RADIUS_KM) * 1000
R2_METERS == max(R2_METERS_RAW, R1_METERS)

\* dM > R2_METERS and dM <= R1_METERS: both false of NaN
beyondR2(dM) == ~dM.nan /\ dM.mm > R2_METERS * 1000
withinR2(dM) == ~dM.nan /\ dM.mm <= R2_METERS * 1000
withinR1(dM) == ~dM.nan /\ dM.mm <= R1_METERS * 1000

\* Math.round((dM / 1000) * 10) / 10, in tenths of a kilometre
distanceKm(dM) == IF dM.nan THEN DNaN ELSE [nan |-> FALSE, mm |-> (dM.mm + 50000) \div 100000]

Categories == {"WEATHER", "TRAFFIC", "INFRA", "SAFETY"}
weight(p) == CASE p = "CRITICAL" -> 3 [] p = "HIGH" -> 2 [] p = "MEDIUM" -> 1 [] p = "LOW" -> 0

\* the state of one fetchVicIncidents call while eat() runs
EatInit ==
  [seen |-> {}, nearby |-> <<>>, within30 |-> [c \in Categories |-> <<>>], thrown |-> FALSE]

\* one iteration of the loop of eat(): feature f, the src-th feature processed
\* (src is carried in the model as "feat", to tell which feature made it)
eatOne(st, f, src, lat, lon, now) ==
  LET p == f.properties
      c == centroid(f.geometry)
      dM == haversineMeters(lat, lon, c.lat, c.lon)
      title == extractTitle(p)
      category == categoryFromVic(p)
      location == pickLocation(p, c.lat, c.lon)
      when == parseWhen(p, now)
      id == idOf(p, title, when)
      model == [id |-> id, title |-> title, description |-> cleanDescription(p),
                location |-> location, timestamp |-> when,
                priority |-> priorityFromVic(p), category |-> category,
                distanceKm |-> distanceKm(dM), feat |-> src]
  IN IF st.thrown THEN st
     ELSE IF c.kind = "throw" THEN [st EXCEPT !.thrown = TRUE]
     ELSE IF c.kind = "null" THEN st
     ELSE IF beyondR2(dM) THEN st
     ELSE IF location.kind = "throw" THEN [st EXCEPT !.thrown = TRUE]
     ELSE IF id \in st.seen THEN st
     ELSE IF withinR1(dM)
       THEN [st EXCEPT !.seen = @ \cup {id}, !.nearby = Append(@, model)]
     ELSE [st EXCEPT !.seen = @ \cup {id}, !.within30[category] = Append(@, model)]

\* a feed payload as fetchVicIncidents holds it: null (the feed failed) or a
\* collection of features
NoFeed == [kind |-> "null", features |-> <<>>]
Coll(fs) == [kind |-> "collection", features |-> fs]

\* eat(collection): the features in feed order; base is the number of
\* features processed before this feed
RECURSIVE eatFrom(_, _, _, _, _, _, _)
eatFrom(st, feats, i, base, lat, lon, now) ==
  IF i > Len(feats) THEN st
  ELSE eatFrom(eatOne(st, feats[i], base + i, lat, lon, now), feats, i + 1, base, lat, lon, now)
eat(st, collection, base, lat, lon, now) ==
  IF collection.kind = "null" THEN st
  ELSE eatFrom(st, collection.features, 1, base, lat, lon, now)

\* sortAlerts(a, weight): Array.prototype.sort is stable
beforeByPriority(x, y) == weight(y.priority) - weight(x.priority) <= 0
before(x, y) ==
  IF weight(y.priority) - weight(x.priority) # 0
  THEN weight(y.priority) - weight(x.priority) < 0
  ELSE y.timestamp - x.timestamp <= 0
RECURSIVE alertInsert(_, _)
alertInsert(s, a) ==
  IF s = <<>> THEN <<a>>
  ELSE IF before(Head(s), a) THEN <<Head(s)>> \o alertInsert(Tail(s), a)
  ELSE <<a>> \o s
RECURSIVE sortAlerts(_)
sortAlerts(a) == IF a = <<>> THEN <<>> ELSE alertInsert(sortAlerts(SubSeq(a, 1, Len(a) - 1)), a[Len(a)])

\* the result of fetchVicIncidents(lat, lon) once both feeds settled to the
\* payloads events and impacts, at time now: a TypeError in eat() rejects
NoResult == [kind |-> "none", nearby |-> <<>>, within30ByCategory |-> [c \in Categories |-> <<>>]]
classify(events, impacts, lat, lon, now) ==
  LET st1 == eat(EatInit, events, 0, lat, lon, now)
      st2 == eat(st1, impacts, Len(events.features), lat, lon, now)
  IN IF st2.thrown THEN [NoResult EXCEPT !.kind = "rejected"]
     ELSE [kind |-> "ok", nearby |-> sortAlerts(st2.nearby),
           within30ByCategory |-> [c \in Categories |-> sortAlerts(st2.within30[c])]]

\* ---- the feeds the classifier is explored over
Origin == [lat |-> 0 - 3781360, lon |-> 14496310]
\* a second caller position, 2000 units (about 2.2 km) further north
Origins == {Origin.lat, Origin.lat + 2000}
\* a Point on the caller's meridian, d units north of Origin.lat
PointAt(d) == Geom("Point", Ja(<<Jn(Origin.lon), Jn(Origin.lat + d)>>))

\* property bags of the feeds: texts the keyword tables match, ids, dates
SampleProps ==
  LET fire == Str(<<"F", "i", "r", "e">>)
      responding == Str(<<"R", "e", "s", "p", "o", "n", "d", "i", "n", "g">>)
      a1 == Str(<<"A", "1">>)
      b2 == Str(<<"B", " ", "2">>)
      plain == [NoProps EXCEPT !.category1 = fire, !.status = responding]
  IN [fire |-> plain,
      fireA1 |-> [plain EXCEPT !.id = a1, !.updated = Iso("2")],
      metA1 |-> [NoProps EXCEPT !.category1 = Str(<<"M", "e", "t">>), !.sourceId = a1,
                                !.status = Str(<<"W", "a", "t", "c", "h", " ", "a", "n", "d",
                                                 " ", "A", "c", "t">>),
                                !.created = Iso("1")],
      treeB2 |-> [NoProps EXCEPT !.category1 = Str(<<"T", "r", "e", "e", " ", "D", "o", "w", "n">>),
                                 !.eventId = b2, !.status = Str(<<"S", "a", "f", "e">>),
                                 !.updated = Str(<<"s", "o", "o", "n">>), !.time = Iso("1")],
      carlton |-> [NoProps EXCEPT !.location = Str(<<"V", "I", "C", " ", "-", " ", "C", "a", "r",
                                                     "l", "t", "o", "n">>),
                                  !.id = b2]]

\* 2698 units are 3.0 km; 4496 and 4497 lie either side of R1, 26979 and
\* 26980 either side of R2
Features ==
  { Feature(PointAt(2698), SampleProps.fire),
    Feature(PointAt(4496), SampleProps.fireA1),
    Feature(PointAt(4497), SampleProps.metA1),
    Feature(PointAt(26979), SampleProps.treeB2),
    Feature(PointAt(26980), SampleProps.fireA1),
    Feature(Geom("Point", Ja(<<>>)), SampleProps.fireA1),
    Feature(Geom("Point", Ja(<<Jn(Origin.lon)>>)), SampleProps.treeB2),
    BareFeature(Geom("Point", Ja(<<Js, Js>>)), "missing"),
    Feature(Geom("Point", Ja(<<Js, Js>>)), SampleProps.carlton),
    BareFeature(NoGeom, "missing"),
    BareFeature(PointAt(0 - 2698), "other"),
    Feature(Geom("MultiLineString", Ja(<<Jo>>)), SampleProps.fire),
    Feature(Geom("MultiLineString",
                 Ja(<<Ju, Ja(<<Ja(<<Jn(Origin.lon), Jn(Origin.lat + 6000)>>), Jn(7)>>)>>)), SampleProps.metA1),
    Feature(GeomColl(<<NoGeom, PointAt(2698), PointAt(2700)>>), SampleProps.treeB2),
    Feature(GeomColl(<<NoGeom, Geom("Circle", Ja(<<Jn(Origin.lon), Jn(Origin.lat)>>))>>), SampleProps.fire),
    Feature(Geom("Circle", Ja(<<Jn(Origin.lon), Jn(Origin.lat)>>)), SampleProps.fireA1),
    Feature(Geom("MultiPoint", Ja(<<>>)), SampleProps.fire),
    Feature(Geom("Polygon", Ja(<<Ja(<<Ja(<<Jn(Origin.lon - 100), Jn(Origin.lat + 8000)>>),
                                      Ja(<<Jn(Origin.lon + 100), Jn(Origin.lat + 8000)>>),
                                      Ja(<<Jn(Origin.lon + 100), Jn(Origin.lat + 8200)>>),
                                      Ja(<<Jn(Origin.lon - 100), Jn(Origin.lat + 8200)>>)>>)>>)),
            SampleProps.fire) }

MaxFeats == 2
MaxRuns == 2
MaxVicClock == 3
TickMs == 60000

\* ---- the raw feed cache and the calls that fetch through it
FEED_TTL_MS == 120000
FeedNames == {"events", "impact"}
\* _feedCache: null, or { at, events, impacts }; "wrote" records, per feed, the
\* value of at when its payload was last stored (the code keeps only at)
NullCache ==
  [isNull |-> TRUE, at |-> 0, data |-> [f \in FeedNames |-> NoFeed],
   wrote |-> [f \in FeedNames |-> 0]]
\* a payload is truthy unless it is null
truthyFeed(data) == data.kind # "null"
\* getVicFeed serves the feed from the cache
cacheHitAlways(fc, feed, now) == ~fc.isNull /\ truthyFeed(fc.data[feed])
cacheHit(fc, feed, now) ==
  ~fc.isNull /\ now - fc.at < FEED_TTL_MS /\ truthyFeed(fc.data[feed])
\* lines 213-216 of getVicFeed, for the call that read Date.now() as now
cacheStore(fc, feed, now, data) ==
  [isNull |-> FALSE, at |-> now, data |-> [fc.data EXCEPT ![feed] = data],
   wrote |-> [fc.wrote EXCEPT ![feed] = now]]

\* what the network answers to one feed request: a feature collection, the
\* JSON null, an error wrapper { ok: false }, a status that is not ok, or a
\* failed fetch
VicPayloads ==
  { <<Feature(PointAt(2698), SampleProps.fire)>>,
    <<Feature(PointAt(4497), SampleProps.metA1), Feature(PointAt(26979), SampleProps.treeB2)>> }
VicResponses ==
  {[kind |-> "data", data |-> Coll(fs)] : fs \in VicPayloads}
    \cup {[kind |-> "data", data |-> NoFeed], [kind |-> "upstreamError", data |-> NoFeed],
          [kind |-> "httpError", data |-> NoFeed], [kind |-> "networkError", data |-> NoFeed]}

MaxVicCalls == 2

\* the call is over: Promise.all has both values
settled(call) == \A f \in FeedNames : call.feeds[f].st = "done"
\* the result once both feeds have settled, classified at the time now
resultOf(call, now) ==
  IF settled(call)
  THEN classify(call.feeds["events"].val, call.feeds["impact"].val, call.lat, Origin.lon, now)
  ELSE NoResult

\* fetchVicIncidents(lat, Origin.lon): both getVicFeed calls run up to their
\* first await; a feed served from the cache needs no request
fetchVicIncidents(lat) ==
  /\ Len(vicCalls) < MaxVicCalls
  /\ LET feeds == [f \in FeedNames |->
                     IF cacheHit(feedCache, f, vicNow)
                     THEN [st |-> "done", val |-> feedCache.data[f]]
                     ELSE [st |-> "pending", val |-> NoFeed]]
         call == [lat |-> lat, now |-> vicNow, feeds |-> feeds,
                  reqs |-> Cardinality({f \in FeedNames : feeds[f].st = "pending"}),
                  res |-> NoResult]
     IN vicCalls' = Append(vicCalls, [call EXCEPT !.res = resultOf(call, vicNow)])
  /\ UNCHANGED <<feedCache, vicNow>>

\* the request of call c for one feed settles: a payload is stored and
\* returned, a failure becomes null (lines 242-243)
FeedSettle(c, feed, resp) ==
  /\ vicCalls[c].feeds[feed].st = "pending"
  /\ LET got == resp.kind = "data"
         call == [vicCalls[c] EXCEPT
                    !.feeds[feed] = [st |-> "done", val |-> IF got THEN resp.data ELSE NoFeed]]
     IN /\ feedCache' = IF got THEN cacheStore(feedCache, feed, vicCalls[c].now, resp.data)
                        ELSE feedCache
        /\ vicCalls' = [vicCalls EXCEPT ![c] = [call EXCEPT !.res = resultOf(call, vicNow)]]
  /\ UNCHANGED vicNow

clearVicCache ==
  /\ ~feedCache.isNull
  /\ feedCache' = NullCache
  /\ UNCHANGED <<vicCalls, vicNow>>

CacheIdle == feedCache = NullCache /\ vicCalls = <<>>
ClsIdle == cEvents = <<>> /\ cImpacts = <<>> /\ cLat = Origin.lat /\ cRuns = <<>>
\* nothing fetched or classified yet
VicIdle == ClsIdle /\ CacheIdle /\ vicNow = TickMs

\* fetchVicIncidents(cLat, Origin.lon) with both feeds delivering their payloads
Classify ==
  /\ Len(cRuns) < MaxRuns
  /\ cRuns' = Append(cRuns, [at |-> vicNow,
                             res |-> classify(Coll(cEvents), Coll(cImpacts), cLat, Origin.lon, vicNow)])
  /\ UNCHANGED <<cEvents, cImpacts, cLat, vicNow, cacheVars>>

\* time passes
VicClockTick ==
  /\ vicNow < MaxVicClock * TickMs
  /\ vicNow' = vicNow + TickMs
  /\ UNCHANGED <<clsVars, cacheVars>>

\* The other components stay as constructed while one is explored.
MergeIdle ==
  /\ mBackend = <<>> /\ mWeather = <<>> /\ mNow = 0 /\ mOut = <<>> /\ mDone = FALSE

\* module load of alertsService.ts (lines 34-35), over a store the local
\* producer may already have written
AggInit ==
  /\ timer = FALSE
  /\ intervals = 0
  /\ listeners = {}
  /\ inflight = 0
  /\ cyc = <<>>
  /\ lsWeather \in WeatherValues
  /\ lsAlertsList = <<>>
  /\ lsAlertsTotal = 0
  /\ lsAlertsUpdatedAt = 0
  /\ nEvAlerts = 0
  /\ nEvList = 0
  /\ evList = <<>>
  /\ errLog = 0
  /\ lastCall = "none"
  /\ clock = 0
  /\ dispatched = NoEvent

AggIdle == AggInit /\ lsWeather.kind = "absent"

Init == AggInit /\ MergeIdle /\ LocIdle /\ SubIdle /\ VicIdle

VisibleEvents == {<<"window", "focus">>, <<"document", "visibilitychange">>}

Next ==
  \/ startAlertsPolling /\ UNCHANGED <<mergeVars, locVars, subVars, vicVars, trigVars, waitVars>>
  \/ stopAlertsPolling /\ UNCHANGED <<mergeVars, locVars, subVars, vicVars, trigVars, waitVars>>
  \/ TimerTick /\ UNCHANGED <<mergeVars, locVars, subVars, vicVars, trigVars, waitVars>>
  \/ onMaybeChanged /\ UNCHANGED <<mergeVars, locVars, subVars, vicVars, trigVars, waitVars>>
  \/ (\E w \in WeatherValues : onWeatherList(w)) /\ UNCHANGED <<mergeVars, locVars, subVars, vicVars, trigVars, waitVars>>
  \/ (\E ev \in VisibleEvents, vs \in {"visible", "hidden"} : onVisible(ev, vs))
       /\ UNCHANGED <<mergeVars, locVars, subVars, vicVars, trigVars, waitVars>>
  \/ (\E c \in DOMAIN cyc, res \in {"response", "networkError"} : FetchSettle(c, res))
       /\ UNCHANGED <<mergeVars, locVars, subVars, vicVars, trigVars, waitVars>>
  \/ (\E c \in DOMAIN cyc, body \in BackendBodies : JsonSettle(c, body))
       /\ UNCHANGED <<mergeVars, locVars, subVars, vicVars, trigVars, waitVars>>
  \/ ClockTick /\ UNCHANGED <<mergeVars, locVars, subVars, vicVars, trigVars, waitVars>>

Spec == Init /\ [][Next]_vars

\* ------------------------------------------------ the merge on its own
\* every backend list and local list of at most MaxLen records together
RECURSIVE SeqsUpTo(_, _)
SeqsUpTo(S, n) ==
  IF n = 0 THEN {<<>>}
  ELSE LET shorter == SeqsUpTo(S, n - 1)
       IN shorter \cup {Append(q, x) : q \in shorter, x \in S}

InitMerge ==
  /\ AggIdle
  /\ LocIdle
  /\ SubIdle
  /\ VicIdle
  /\ mBackend \in SeqsUpTo(RecSet("b"), MaxLen)
  /\ mWeather \in SeqsUpTo(RecSet("w"), MaxLen - Len(mBackend))
  /\ mNow \in 0..MaxNow
  /\ mOut = <<>>
  /\ mDone = FALSE

\* steps 3 and 4 of fetchOnce applied to the lists drawn
DoMerge ==
  /\ ~mDone
  /\ mOut' = mergeAlerts(mBackend, mWeather, mNow)
  /\ mDone' = TRUE
  /\ UNCHANGED <<mBackend, mWeather, mNow, aggVars, locVars, subVars, vicVars, trigVars, waitVars>>

NextMerge == DoMerge

SpecMerge == InitMerge /\ [][NextMerge]_vars

\* ------------------------------------------------ the tracker on its own
InitLoc == LocInit /\ AggIdle /\ MergeIdle /\ SubIdle /\ VicIdle

NextLoc ==
  \/ start /\ UNCHANGED <<aggVars, mergeVars, subVars, vicVars, trigVars, waitVars>>
  \/ stop /\ UNCHANGED <<aggVars, mergeVars, subVars, vicVars, trigVars, waitVars>>
  \/ tick /\ UNCHANGED <<aggVars, mergeVars, subVars, vicVars, trigVars, waitVars>>
  \/ (\E c \in Fixes : onPosition(c)) /\ UNCHANGED <<aggVars, mergeVars, subVars, vicVars, trigVars, waitVars>>
  \/ onError /\ UNCHANGED <<aggVars, mergeVars, subVars, vicVars, trigVars, waitVars>>
  \/ (\E r \in DOMAIN geo, resp \in GeoResponses : GeoSettle(r, resp))
       /\ UNCHANGED <<aggVars, mergeVars, subVars, vicVars, trigVars, waitVars>>
  \/ (\E old \in BagToSet(permQ), st \in PermissionStates : PermissionSettle(old, st))
       /\ UNCHANGED <<aggVars, mergeVars, subVars, vicVars, trigVars, waitVars>>

SpecLoc == InitLoc /\ [][NextLoc]_vars

\* ------------------------- the tracker and its subscribers, where every
\* ------------------------- position request fails
InitSub == LocIdle /\ AggIdle /\ MergeIdle /\ SubIdle /\ VicIdle

NextSub ==
  \/ (\E fn \in Fns : subscribe(fn)) /\ UNCHANGED <<aggVars, mergeVars, locVars, vicVars, trigVars, waitVars>>
  \/ (\E h \in DOMAIN handles : unsubscribe(h)) /\ UNCHANGED <<aggVars, mergeVars, locVars, vicVars, trigVars, waitVars>>
  \/ start /\ Quiet /\ UNCHANGED <<aggVars, mergeVars, vicVars, trigVars, waitVars>>
  \/ stop /\ Quiet /\ UNCHANGED <<aggVars, mergeVars, vicVars, trigVars, waitVars>>
  \/ tick /\ Quiet /\ UNCHANGED <<aggVars, mergeVars, vicVars, trigVars, waitVars>>
  \/ onError /\ Deliver /\ UNCHANGED <<aggVars, mergeVars, vicVars, trigVars, waitVars>>
  \/ (\E old \in BagToSet(permQ), st \in PermissionStates : PermissionSettle(old, st))
       /\ Deliver /\ UNCHANGED <<aggVars, mergeVars, vicVars, trigVars, waitVars>>

SpecSub == InitSub /\ [][NextSub]_vars

\* ------------------------- the tracker, its subscribers and the callers
\* ------------------------- of waitForFirstFix, without a geocode endpoint
InitWait ==
  /\ LocInit /\ ~API /\ lsAddress = Null /\ lsCoords = NoCoords
  /\ AggIdle /\ MergeIdle /\ SubIdle /\ VicIdle

WaitRest == <<aggVars, mergeVars, vicVars, trigVars>>
\* two fixes, in different cells
WaitFixes == {<<-3781360, 14496310>>, <<-3781500, 14496500>>}

NextWait ==
  \/ subscribe("bad") /\ UNCHANGED <<locVars, waitVars, WaitRest>>
  \/ waitForFirstFix /\ UNCHANGED <<locVars, WaitRest>>
  \/ (\E w \in DOMAIN waits : WaitTimeout(w)) /\ UNCHANGED <<locVars, WaitRest>>
  \/ start /\ Quiet /\ UNCHANGED <<waitVars, WaitRest>>
  \/ tick /\ Quiet /\ UNCHANGED <<waitVars, WaitRest>>
  \/ (\E c \in WaitFixes : PositionTask(c)) /\ UNCHANGED WaitRest
  \/ onError /\ WaitBroadcast(waits) /\ UNCHANGED WaitRest
  \/ (\E r \in DOMAIN geo, resp \in GeoResponses : GeoSettle(r, resp))
       /\ WaitBroadcast(waits) /\ UNCHANGED WaitRest
  \/ (\E old \in BagToSet(permQ), st \in PermissionStates : PermissionSettle(old, st))
       /\ WaitBroadcast(waits) /\ UNCHANGED WaitRest

SpecWait == InitWait /\ [][NextWait]_vars

\* ------------------- the tracker while permission queries are slow: the
\* ------------------- query of one tick is still unanswered at the next
MaxStale == 2
\* fixes of one cell; a request that fails and one that returns an address
StaleFixes == {<<-3781360, 14496310>>}
StaleResponses ==
  {[kind |-> "networkError", address |-> Null], [kind |-> "json", address |-> MainSt]}

InitStale ==
  /\ LocInit /\ API /\ lsAddress = Null /\ lsCoords = NoCoords
  /\ AggIdle /\ MergeIdle /\ SubIdle /\ VicIdle

\* the interval fires while up to MaxStale queries are unanswered
tickStale ==
  /\ NoGeoAbortPending
  /\ tickTimers > 0
  /\ posPending < MaxPos
  /\ BagCardinality(permQ) <= MaxStale
  /\ posPending' = posPending + 1
  /\ permQ' = permQ (+) SetToBag({snap})
  /\ UNCHANGED <<API, snap, timerId, tickTimers, inFlightGeocode, geo, lsAddress, lsCoords,
                 ssLastCell, published, locCall, runCell, runReqs>>

StaleRest == <<aggVars, mergeVars, subVars, vicVars, trigVars, waitVars>>

NextStale ==
  \/ start /\ UNCHANGED StaleRest
  \/ tickStale /\ UNCHANGED StaleRest
  \/ (\E c \in StaleFixes : onPosition(c)) /\ UNCHANGED StaleRest
  \/ (\E r \in DOMAIN geo, resp \in StaleResponses : GeoSettle(r, resp)) /\ UNCHANGED StaleRest
  \/ (\E old \in BagToSet(permQ) : PermissionSettle(old, "granted")) /\ UNCHANGED StaleRest

SpecStale == InitStale /\ [][NextStale]_vars

\* ------------------------------------------- the classifier on its own
\* the two payloads, the caller's latitude, and the invocations made so far
InitClassify ==
  /\ AggIdle /\ MergeIdle /\ LocIdle /\ SubIdle
  /\ cEvents \in SeqsUpTo(Features, MaxFeats)
  /\ cImpacts \in SeqsUpTo(Features, MaxFeats)
  /\ Len(cEvents) + Len(cImpacts) <= MaxFeats
  /\ cLat \in Origins
  /\ vicNow = TickMs
  /\ cRuns = <<>>
  /\ CacheIdle

NextClassify ==
  \/ Classify /\ UNCHANGED <<aggVars, mergeVars, locVars, subVars, trigVars, waitVars>>
  \/ VicClockTick /\ UNCHANGED <<aggVars, mergeVars, locVars, subVars, trigVars, waitVars>>

SpecClassify == InitClassify /\ [][NextClassify]_vars

\* ------------------------- the aggregator and the events of its page: an
\* ------------------------- event is dispatched whether or not it is heard
OtherVars == <<mergeVars, locVars, subVars, vicVars, waitVars>>

\* no listener is registered for the event, or the handler returns at once
Unheard ==
  /\ NoAbortPending
  /\ UNCHANGED aggVars

InitTrig == Init

NextTrig ==
  \/ startAlertsPolling /\ dispatched' = Event("start", "visible") /\ UNCHANGED OtherVars
  \/ stopAlertsPolling /\ dispatched' = Event("stop", "visible") /\ UNCHANGED OtherVars
  \/ TimerTick /\ dispatched' = Event("tick", "visible") /\ UNCHANGED OtherVars
  \/ onMaybeChanged /\ dispatched' = Event("cs:alerts:maybeChanged", "visible")
       /\ UNCHANGED OtherVars
  \/ (<<"window", "cs:alerts:maybeChanged">> \notin listeners /\ Unheard)
       /\ dispatched' = Event("cs:alerts:maybeChanged", "visible") /\ UNCHANGED OtherVars
  \/ (\E w \in WeatherValues : onWeatherList(w))
       /\ dispatched' = Event("cs:weather:list", "visible") /\ UNCHANGED OtherVars
  \/ (\E ev \in VisibleEvents, vs \in {"visible", "hidden"} :
         onVisible(ev, vs) /\ dispatched' = Event(ev[2], vs))
       /\ UNCHANGED OtherVars
  \/ (\E ev \in VisibleEvents, vs \in {"visible", "hidden"} :
         /\ ev \notin listeners \/ vs # "visible"
         /\ Unheard
         /\ dispatched' = Event(ev[2], vs))
       /\ UNCHANGED OtherVars
  \/ (\E c \in DOMAIN cyc, res \in {"response", "networkError"} : FetchSettle(c, res))
       /\ dispatched' = NoEvent /\ UNCHANGED OtherVars
  \/ (\E c \in DOMAIN cyc, body \in BackendBodies : JsonSettle(c, body))
       /\ dispatched' = NoEvent /\ UNCHANGED OtherVars
  \/ ClockTick /\ dispatched' = NoEvent /\ UNCHANGED OtherVars

SpecTrig == InitTrig /\ [][NextTrig]_vars

\* ------------------- the inference of priority and category on its own
\* texts of the feeds' status, severity, urgency and category members
Texts ==
  [emergencyWarning |-> Str(<<"E", "m", "e", "r", "g", "e", "n", "c", "y", " ", "W", "a", "r", "n", "i", "n", "g">>),
   evacuateNow |-> Str(<<"E", "v", "a", "c", "u", "a", "t", "e", " ", "N", "o", "w">>),
   watchAndAct |-> Str(<<"W", "a", "t", "c", "h", " ", "a", "n", "d", " ", "A", "c", "t">>),
   warning |-> Str(<<"W", "a", "r", "n", "i", "n", "g">>),
   advice |-> Str(<<"A", "d", "v", "i", "c", "e">>),
   responding |-> Str(<<"R", "e", "s", "p", "o", "n", "d", "i", "n", "g">>),
   safe |-> Str(<<"S", "a", "f", "e">>),
   going |-> Str(<<"G", "o", "i", "n", "g">>),
   severe |-> Str(<<"S", "e", "v", "e", "r", "e">>),
   moderate |-> Str(<<"M", "o", "d", "e", "r", "a", "t", "e">>),
   minor |-> Str(<<"M", "i", "n", "o", "r">>),
   immediate |-> Str(<<"I", "m", "m", "e", "d", "i", "a", "t", "e">>),
   expected |-> Str(<<"E", "x", "p", "e", "c", "t", "e", "d">>),
   fire |-> Str(<<"F", "i", "r", "e">>),
   met |-> Str(<<"M", "e", "t">>),
   flood |-> Str(<<"F", "l", "o", "o", "d">>),
   emergency |-> Str(<<"E", "m", "e", "r", "g", "e", "n", "c", "y">>),
   wind |-> Str(<<"W", "i", "n", "d">>)]

\* property bags: a status, cap.severity, cap.urgency, category1 and
\* category2, each missing or one of the texts ("" is a status too)
InferBags ==
  {[NoProps EXCEPT !.status = s, !.severity = v, !.urgency = u, !.category1 = c1,
                   !.category2 = c2] :
     s \in {Null, Str(<<>>), Texts.emergencyWarning, Texts.evacuateNow, Texts.watchAndAct,
            Texts.warning, Texts.advice, Texts.responding, Texts.safe, Texts.going},
     v \in {Null, Texts.severe, Texts.moderate, Texts.minor},
     u \in {Null, Texts.immediate, Texts.expected},
     c1 \in {Null, Texts.fire, Texts.met, Texts.flood, Texts.emergency},
     c2 \in {Null, Texts.wind}}

\* a feed of one feature, 3 km from the caller, with one of the bags
InitInfer ==
  /\ AggIdle /\ MergeIdle /\ LocIdle /\ SubIdle
  /\ cEvents \in {<<Feature(PointAt(2698), p)>> : p \in InferBags}
  /\ cImpacts = <<>>
  /\ cLat = Origin.lat
  /\ vicNow = TickMs
  /\ cRuns = <<>>
  /\ CacheIdle

SpecInfer == InitInfer /\ [][NextClassify]_vars

\* ------------------------ the centroid of polygons, through the classifier
\* a position dlon, dlat units from the caller's first position
Vertex(dlon, dlat) == Ja(<<Jn(Origin.lon + dlon), Jn(Origin.lat + dlat)>>)
\* rings: two squares, a triangle, a triangle closed by its first position,
\* and a square with an entry that is not a position
Rings ==
  [square |-> Ja(<<Vertex(0 - 100, 900), Vertex(0 - 100, 1100), Vertex(100, 1100),
                   Vertex(100, 900)>>),
   far |-> Ja(<<Vertex(0 - 100, 2900), Vertex(0 - 100, 3100), Vertex(100, 3100),
                Vertex(100, 2900)>>),
   triangle |-> Ja(<<Vertex(0 - 300, 0), Vertex(100, 300), Vertex(200, 600)>>),
   closed |-> Ja(<<Vertex(0, 0), Vertex(100, 500), Vertex(0 - 100, 500), Vertex(0, 0)>>),
   gap |-> Ja(<<Vertex(0 - 100, 900), Jn(7), Vertex(0 - 100, 1100), Vertex(100, 1100),
                Vertex(100, 900)>>)]
PolyGeoms ==
  { Geom("Polygon", Ja(<<Rings.square>>)),
    Geom("Polygon", Ja(<<Rings.square, Rings.far>>)),
    Geom("Polygon", Ja(<<Rings.far, Rings.square>>)),
    Geom("Polygon", Ja(<<Rings.triangle, Rings.far>>)),
    Geom("Polygon", Ja(<<Rings.closed>>)),
    Geom("Polygon", Ja(<<Rings.gap, Rings.triangle>>)),
    Geom("Polygon", Ja(<<>>)),
    Geom("MultiPolygon", Ja(<<Ja(<<Rings.square>>), Ja(<<Rings.far>>)>>)),
    Geom("MultiPolygon", Ja(<<Ja(<<Rings.far, Rings.square>>), Ja(<<Rings.triangle>>)>>)),
    Geom("MultiPolygon", Ja(<<Ja(<<Rings.triangle, Rings.square>>)>>)),
    Geom("MultiPolygon", Ja(<<Ja(<<>>), Ja(<<Rings.square>>)>>)) }

\* a feed of one polygon or two
InitPoly ==
  /\ AggIdle /\ MergeIdle /\ LocIdle /\ SubIdle
  /\ cEvents \in {<<Feature(g, SampleProps.fire)>> : g \in PolyGeoms}
  /\ cImpacts \in {<<>>} \cup {<<Feature(g, SampleProps.fireA1)>> : g \in PolyGeoms}
  /\ cLat \in Origins
  /\ vicNow = TickMs
  /\ cRuns = <<>>
  /\ CacheIdle

SpecPoly == InitPoly /\ [][NextClassify]_vars

\* --------------------------------------------- the feed cache on its own
InitVic == AggIdle /\ MergeIdle /\ LocIdle /\ SubIdle /\ VicIdle

NextVic ==
  \/ (\E lat \in Origins : fetchVicIncidents(lat))
       /\ UNCHANGED <<aggVars, mergeVars, locVars, subVars, clsVars, trigVars, waitVars>>
  \/ (\E c \in DOMAIN vicCalls, feed \in FeedNames, resp \in VicResponses :
         FeedSettle(c, feed, resp))
       /\ UNCHANGED <<aggVars, mergeVars, locVars, subVars, clsVars, trigVars, waitVars>>
  \/ clearVicCache /\ UNCHANGED <<aggVars, mergeVars, locVars, subVars, clsVars, trigVars, waitVars>>
  \/ VicClockTick /\ UNCHANGED <<aggVars, mergeVars, locVars, subVars, trigVars, waitVars>>

SpecVic == InitVic /\ [][NextVic]_vars

\* ------------------ the feed cache after a first invocation whose two
\* ------------------ requests were answered at once; from then on every
\* ------------------ request is answered before the clock advances, or never
WarmCache ==
  cacheStore(cacheStore(NullCache, "events", TickMs, Coll(<<Feature(PointAt(2698), SampleProps.fire)>>)),
             "impact", TickMs,
             Coll(<<Feature(PointAt(4497), SampleProps.metA1),
                    Feature(PointAt(26979), SampleProps.treeB2)>>))

InitWarm ==
  /\ AggIdle /\ MergeIdle /\ LocIdle /\ SubIdle /\ ClsIdle
  /\ vicNow = TickMs
  /\ feedCache = WarmCache
  /\ vicCalls = <<>>

WarmRest == <<aggVars, mergeVars, locVars, subVars, clsVars, trigVars, waitVars>>

NextWarm ==
  \/ (\E lat \in Origins : fetchVicIncidents(lat)) /\ UNCHANGED WarmRest
  \/ (\E c \in DOMAIN vicCalls, feed \in FeedNames, resp \in VicResponses :
         vicCalls[c].now = vicNow /\ FeedSettle(c, feed, resp))
       /\ UNCHANGED WarmRest
  \/ VicClockTick /\ UNCHANGED <<aggVars, mergeVars, locVars, subVars, trigVars, waitVars>>

SpecWarm == InitWarm /\ [][NextWarm]_vars

\* ================================================================ claims
Uncancelled == {c \in DOMAIN cyc : Live(c) /\ ~cyc[c].aborted}

\* C1: at most one aggregation cycle is in progress un-cancelled at any time;
\* when a new cycle starts every earlier cycle still awaiting its fetch has
\* been cancelled.
C1_SingleFlight == Cardinality(Uncancelled) <= 1

\* C2: merged lists are persisted and published in cycle start order: a cycle
\* never persists after a cycle started later than it has persisted.
C2_PersistInStartOrder ==
  [][\A c \in DOMAIN cyc :
       (cyc[c].pc # "done" /\ cyc'[c].pc = "done")
         => \A d \in DOMAIN cyc : d > c => cyc[d].pc # "done"]_vars

mInput == mBackend \o mWeather
RangeOf(q) == {q[i] : i \in DOMAIN q}

\* C3: the merged output holds at most one record per clusterId, and when two
\* unexpired input records share a clusterId the one record kept for it is an
\* input record whose expiresAt is the larger one, whatever the sources and
\* the order of arrival.
C3_Dedup ==
  mDone =>
    /\ \A i, j \in DOMAIN mOut : i # j => mOut[i].clusterId # mOut[j].clusterId
    /\ \A i, j \in DOMAIN mInput :
         ( /\ i # j
           /\ unexpired(mInput[i], mNow) /\ unexpired(mInput[j], mNow)
           /\ mInput[i].clusterId = mInput[j].clusterId
           /\ mInput[i].clusterId # "" )
         => /\ Cardinality({k \in DOMAIN mOut : mOut[k].clusterId = mInput[i].clusterId}) = 1
            /\ \A k \in DOMAIN mOut :
                 mOut[k].clusterId = mInput[i].clusterId
                   => /\ mOut[k] \in RangeOf(mInput)
                      /\ mOut[k].expiresAt >= mInput[i].expiresAt
                      /\ mOut[k].expiresAt >= mInput[j].expiresAt

\* a backend record outlives a later local record of the same cluster
C3_Witness ==
  /\ mDone
  /\ \E i, j \in DOMAIN mInput :
       /\ i < j
       /\ mInput[i].src = "b" /\ mInput[j].src = "w"
       /\ mInput[i].clusterId = "c1" /\ mInput[j].clusterId = "c1"
       /\ unexpired(mInput[j], mNow)
       /\ mInput[i].expiresAt > mInput[j].expiresAt
       /\ mInput[i] \in RangeOf(mOut)

\* C4: every record of the merged output has a numeric expiresAt strictly
\* greater than the now of the merge; a record whose expiresAt is at most
\* now, missing or not a number is never in the output.
C4_Expiry ==
  mDone =>
    /\ \A k \in DOMAIN mOut : mOut[k].expKind = "num" /\ mOut[k].expiresAt > mNow
    /\ \A i \in DOMAIN mInput :
         (mInput[i].expKind # "num" \/ mInput[i].expiresAt <= mNow)
           => mInput[i] \notin RangeOf(mOut)

\* a record expiring exactly now and one without a number are dropped while
\* another record is kept
C4_Witness ==
  /\ mDone
  /\ mOut # <<>>
  /\ \E i, j \in DOMAIN mInput :
       /\ mInput[i].expKind = "num" /\ mInput[i].expiresAt = mNow /\ mInput[i].clusterId # ""
       /\ mInput[j].expKind # "num" /\ mInput[j].clusterId # ""

\* C5: a cycle whose fetch fails with a network error, or whose body does not
\* parse, leaves the persisted list, count and updated-at as they were and
\* publishes neither event.
C5_FailureKeepsState ==
  [][\A c \in DOMAIN cyc :
       (Live(c) /\ cyc'[c].pc = "failed") => UNCHANGED <<storeVars, eventVars>>]_vars

\* a cycle has failed after an earlier one persisted a non-empty list
C5_Witness ==
  \E c, d \in DOMAIN cyc :
    /\ d < c
    /\ cyc[d].pc = "done"
    /\ cyc[c].pc = "failed"
    /\ lsAlertsTotal > 0
    /\ errLog > 0

\* C6: after stopAlertsPolling and until the next start the timer is cleared,
\* the listeners are detached, no cycle is left un-cancelled, and nothing is
\* written to the merged keys and no event is published.
C6_StopIsQuiet ==
  [][ /\ lastCall' = "stop"
        => /\ ~timer' /\ intervals' = 0 /\ listeners' = {}
           /\ \A c \in DOMAIN cyc' : cyc'[c].pc \in {"fetch", "json"} => cyc'[c].aborted
      /\ (lastCall = "stop" /\ lastCall' = "stop")
        => UNCHANGED <<storeVars, eventVars>> ]_vars

\* C7: with the geocode endpoint configured, over a run of position fixes
\* that stay in one cell exactly one reverse-geocode request is issued, and
\* the first fix of another cell issues exactly one more, however long the
\* responses take.
C7_OneGeocodePerCell == (API /\ runCell # NoCell) => runReqs = 1

Settles(r) == geo[r].pc = "pending" /\ geo'[r].pc = "done"

\* C8: a reverse-geocode request that was superseded by a newer one or
\* cancelled by stop() changes neither the snapshot's address nor the
\* remembered last-geocoded cell when it settles.
C8_SupersededNeverCommits ==
  [][\A r \in DOMAIN geo :
       (Settles(r) /\ (geo[r].aborted \/ r # Len(geo)))
         => (snap'.address = snap.address /\ ssLastCell' = ssLastCell)]_vars

\* a superseded request has settled, then the newest one committed an address
C8_Witness ==
  /\ Len(geo) >= 2
  /\ geo[1].pc = "done" /\ geo[1].aborted
  /\ geo[2].pc = "done" /\ ~geo[2].aborted
  /\ ssLastCell # NoCell
  /\ Truthy(snap.address)

\* C9: after stop() and until the next start() the tick timer is cleared, no
\* reverse-geocode request is in flight, none is started and no address is
\* committed, also when a position asked for before stop() arrives after it.
C9_StopIsQuiet ==
  [][ /\ locCall' = "stop"
        => /\ ~timerId'
           /\ \A r \in DOMAIN geo' : geo'[r].pc = "pending" => geo'[r].aborted
      /\ (locCall = "stop" /\ locCall' = "stop")
        => (Len(geo') = Len(geo) /\ ssLastCell' = ssLastCell) ]_vars

\* the coordinate pairs the application formats, and the shape it recognises
CoordPairs == {formatCoords(c) : c \in Fixes} \cup {PaddedCoords}
IsAddressOrNull(a) ==
  a.isNull \/ (a.chars # <<>> /\ a \notin CoordPairs /\ ~looksLikeCoords(a))

\* C10: the address of the snapshot, of every snapshot delivered to a
\* subscriber and of every write of the tracker to the store is null or a
\* string that is not a formatted coordinate pair.
C10_AddressNeverCoords ==
  /\ IsAddressOrNull(snap.address)
  /\ \A i \in DOMAIN published :
       /\ IsAddressOrNull(published[i].snap.address)
       /\ IsAddressOrNull(published[i].wroteAddress)

\* the store held a coordinate pair when the module loaded; the tracker has
\* since delivered a real address from a geocode and written it to the store
C10_Witness ==
  /\ API
  /\ snap.address = HighSt
  /\ published # <<>>
  /\ published[Len(published)].wroteAddress = HighSt
  /\ lsAddress = HighSt
  /\ \E r \in DOMAIN geo : geo[r].pc = "done" /\ ~geo[r].aborted

\* C17: a cycle whose fetch was cancelled, by a newer cycle or by stop, ends
\* without persisting: when it resumes it writes none of the merged list, count
\* and updated-at keys, publishes no event and reports no error.
C17_CancelledIsNoOp ==
  [][\A c \in DOMAIN cyc :
       (Live(c) /\ cyc[c].aborted /\ cyc'[c].pc # cyc[c].pc)
         => /\ cyc'[c].pc = "cancelled"
            /\ UNCHANGED <<storeVars, eventVars, errLog>>]_vars

\* a superseded cycle and a cycle cancelled by stop have both ended, after an
\* earlier cycle persisted a non-empty list, and nothing was reported
C17_Witness ==
  /\ Len(cyc) >= 3
  /\ cyc[1].pc = "done"
  /\ cyc[2].pc = "cancelled" /\ cyc[3].pc = "cancelled"
  /\ lastCall = "stop"
  /\ lsAlertsTotal > 0
  /\ nEvList = 1
  /\ errLog = 0

\* C18: the merge is idempotent: the list it produced is what the merge of the
\* same lists at the same now yields, record for record, and merging that
\* list again as the only input, from either source, yields it unchanged.
C18_MergeIdempotent ==
  mDone =>
    /\ mOut = mergeAlerts(mBackend, mWeather, mNow)
    /\ mergeAlerts(mOut, <<>>, mNow) = mOut
    /\ mergeAlerts(<<>>, mOut, mNow) = mOut

\* the output holds two records that the merge had to reorder and one cluster
\* it had to deduplicate
C18_Witness ==
  /\ mDone
  /\ Len(mOut) >= 2
  /\ mOut[1].expiresAt > mOut[2].expiresAt
  /\ \E i, j \in DOMAIN mInput :
       /\ i < j
       /\ mInput[i] = mOut[2] /\ mInput[j].clusterId = mOut[1].clusterId
       /\ unexpired(mInput[j], mNow)
  /\ Len(mInput) > Len(mOut)

\* C19: start() is idempotent: whenever the last lifecycle call of the tracker
\* is a start exactly one tick interval exists, and a start() while the
\* tracker runs changes nothing: no timer, no position request, no permission
\* query, no publish.
C19_StartIdempotent ==
  [][ /\ (locCall' \in {"start", "restart"}) => (timerId' /\ tickTimers' = 1)
      /\ (locCall' = "restart" /\ locCall # "restart")
           => UNCHANGED <<API, snap, timerId, tickTimers, inFlightGeocode, geo, posPending,
                          permQ, lsAddress, lsCoords, ssLastCell, published, runCell,
                          runReqs>> ]_vars

\* start() was called again while the tracker was running with a fix known
\* and a position request outstanding
C19_Witness ==
  /\ locCall = "restart"
  /\ timerId /\ tickTimers = 1
  /\ snap.coords # NoCoords
  /\ posPending > 0

\* fn holds a handle that has not been called
Active(fn) == \E h \in DOMAIN handles : handles[h].fn = fn /\ ~handles[h].called
CallsOf(fn, q) == {i \in DOMAIN q : q[i].fn = fn}

\* C20: subscribe(fn) calls fn once with the current snapshot; every broadcast
\* then calls fn once with the snapshot published, as long as a handle
\* returned for fn has not been called; a listener none of whose handles is
\* uncalled is not called; calling a handle again changes nothing.
C20_SubscribeContract ==
  [][ /\ (subCall'.op = "subscribe" /\ Len(handles') > Len(handles))
           => invoked' = <<[fn |-> subCall'.fn, snap |-> snap]>>
      /\ subCall'.op = "broadcast"
           => \A fn \in Fns :
                IF Active(fn)
                THEN /\ Cardinality(CallsOf(fn, invoked')) = 1
                     /\ \A i \in CallsOf(fn, invoked') : invoked'[i].snap = snap'
                ELSE CallsOf(fn, invoked') = {}
      /\ \A fn \in Fns :
           (~Active(fn) /\ ~(subCall'.op = "subscribe" /\ subCall'.fn = fn))
             => CallsOf(fn, invoked') = {}
      /\ (subCall'.op = "unsubscribe" /\ handles[subCall'.h].called)
           => subs' = subs ]_vars

\* ---- the classifier's results, read back
\* the features in processing order: events feed, then impact feed
allFeats == cEvents \o cImpacts
\* the feature has a centroid with a numeric latitude and longitude
numericCentroid(f) ==
  LET c == centroid(f.geometry) IN c.kind = "pt" /\ c.lat.k = "num" /\ c.lon.k = "num"
\* its distance from the caller, mm
dOf(f) ==
  LET c == centroid(f.geometry) IN haversineMeters(cLat, Origin.lon, c.lat, c.lon).mm
ModelsOf(res) ==
  {res.nearby[k] : k \in DOMAIN res.nearby}
    \cup UNION {{res.within30ByCategory[c][k] : k \in DOMAIN res.within30ByCategory[c]} :
                c \in Categories}
ExtendedOf(res) == ModelsOf(res) \ {res.nearby[k] : k \in DOMAIN res.nearby}
InNearby(res, i) == \E k \in DOMAIN res.nearby : res.nearby[k].feat = i
InExtended(res, i, c) ==
  \E k \in DOMAIN res.within30ByCategory[c] : res.within30ByCategory[c][k].feat = i
\* an earlier feature holds the id the i-th feature gets in that run
Taken(run, i) ==
  LET p == allFeats[i].properties
      id == idOf(p, extractTitle(p), parseWhen(p, run.at))
  IN \E m \in ModelsOf(run.res) : m.feat < i /\ m.id = id

\* C11: in every result, a feature at numeric distance d whose id no earlier
\* feature holds is in "nearby" iff d <= R1, and in the extended bucket c iff
\* R1 < d <= R2 and c is its category (so in neither iff d > R2); no incident
\* is in both "nearby" and an extended bucket.
C11_DistanceBucketing ==
  \A r \in DOMAIN cRuns :
    cRuns[r].res.kind = "ok" =>
      /\ \A i \in DOMAIN allFeats :
           (numericCentroid(allFeats[i]) /\ ~Taken(cRuns[r], i)) =>
             /\ InNearby(cRuns[r].res, i) <=> dOf(allFeats[i]) <= R1_METERS * 1000
             /\ \A c \in Categories :
                  InExtended(cRuns[r].res, i, c) <=>
                    /\ dOf(allFeats[i]) > R1_METERS * 1000
                    /\ dOf(allFeats[i]) <= R2_METERS * 1000
                    /\ c = categoryFromVic(allFeats[i].properties)
      /\ \A m \in ExtendedOf(cRuns[r].res), k \in DOMAIN cRuns[r].res.nearby :
           m.id # cRuns[r].res.nearby[k].id /\ m.feat # cRuns[r].res.nearby[k].feat

\* a result with one feature within R1 in "nearby", another between R1
\* and R2 in its category's bucket
C11_Witness ==
  \E r \in DOMAIN cRuns, i, j \in DOMAIN allFeats :
    /\ cRuns[r].res.kind = "ok"
    /\ numericCentroid(allFeats[i]) /\ numericCentroid(allFeats[j])
    /\ dOf(allFeats[i]) <= R1_METERS * 1000
    /\ dOf(allFeats[j]) > R1_METERS * 1000 /\ dOf(allFeats[j]) <= R2_METERS * 1000
    /\ InNearby(cRuns[r].res, i)
    /\ InExtended(cRuns[r].res, j, categoryFromVic(allFeats[j].properties))

\* C16: in every result, a feature with no centroid of numeric latitude and
\* longitude is absent from "nearby" and from every extended bucket.
C16_NoCentroidDropped ==
  \A r \in DOMAIN cRuns, i \in DOMAIN allFeats :
    (cRuns[r].res.kind = "ok" /\ ~numericCentroid(allFeats[i])) =>
      /\ ~InNearby(cRuns[r].res, i)
      /\ \A c \in Categories : ~InExtended(cRuns[r].res, i, c)

\* the feature is within the extended radius of the caller
inRange(f) == numericCentroid(f) /\ dOf(f) <= R2_METERS * 1000
\* the id the i-th feature gets in a call made at time at
idAt(i, at) ==
  LET p == allFeats[i].properties IN idOf(p, extractTitle(p), parseWhen(p, at))
InResult(res, i) == \E m \in ModelsOf(res) : m.feat = i
sizeOf(res) ==
  Len(res.nearby) + Len(res.within30ByCategory["WEATHER"]) + Len(res.within30ByCategory["TRAFFIC"])
    + Len(res.within30ByCategory["INFRA"]) + Len(res.within30ByCategory["SAFETY"])

\* C12: in every result each id occurs once across "nearby" and the extended
\* buckets, and of the in-range features sharing an id the first in
\* processing order is the one in the result (so nothing out of range
\* suppresses it).
C12_ClassifierDedup ==
  \A r \in DOMAIN cRuns :
    cRuns[r].res.kind = "ok" =>
      /\ Cardinality({m.id : m \in ModelsOf(cRuns[r].res)}) = sizeOf(cRuns[r].res)
      /\ \A i \in DOMAIN allFeats :
           inRange(allFeats[i]) =>
             (InResult(cRuns[r].res, i) <=>
                ~\E j \in 1..(i - 1) :
                    inRange(allFeats[j]) /\ idAt(j, cRuns[r].at) = idAt(i, cRuns[r].at))

\* C13: two calls over the same feeds give a feature the same id whenever
\* both results hold it.
C13_DeterministicId ==
  \A r1, r2 \in DOMAIN cRuns :
    \A m1 \in ModelsOf(cRuns[r1].res), m2 \in ModelsOf(cRuns[r2].res) :
      m1.feat = m2.feat => m1.id = m2.id

\* a feature the classifier can place: numeric centroid and a property object
wellFormed(f) == numericCentroid(f) /\ f.bag = "object"
wellFormedOnly(feats) == SelectSeq(feats, wellFormed)
\* a result without the positions of the features in the feeds
sansFeat(ms) ==
  [k \in DOMAIN ms |-> [id |-> ms[k].id, title |-> ms[k].title, priority |-> ms[k].priority,
                        category |-> ms[k].category, timestamp |-> ms[k].timestamp,
                        distanceKm |-> ms[k].distanceKm]]
shapeOf(res) ==
  [kind |-> res.kind, nearby |-> sansFeat(res.nearby),
   within30ByCategory |-> [c \in Categories |-> sansFeat(res.within30ByCategory[c])]]

\* the part of C15 about completion: no call rejects
C15_NeverRejects == \A r \in DOMAIN cRuns : cRuns[r].res.kind # "rejected"

\* C15: every call completes, and its result is the classification of the
\* well-formed features of the two feeds, the malformed ones left out.
C15_MalformedSkipped ==
  /\ C15_NeverRejects
  /\ \A r \in DOMAIN cRuns :
       shapeOf(cRuns[r].res) =
         shapeOf(classify(Coll(wellFormedOnly(cEvents)), Coll(wellFormedOnly(cImpacts)),
                          cLat, Origin.lon, cRuns[r].at))

\* ---- the feed cache, read back
\* a step in which fetchVicIncidents is called
FetchStep == Len(vicCalls') = Len(vicCalls) + 1
\* both payloads are cached and were fetched by calls made less than 120 s ago
bothFresh ==
  /\ ~feedCache.isNull
  /\ \A f \in FeedNames :
       truthyFeed(feedCache.data[f]) /\ vicNow - feedCache.wrote[f] < 120 * 1000
\* 120 s or more have passed since the calls that fetched the two payloads
bothStale ==
  /\ ~feedCache.isNull
  /\ \A f \in FeedNames : vicNow - feedCache.wrote[f] >= 120 * 1000

\* C14: a call made while both cached payloads are less than 120 s old issues
\* no request and returns the classification of the cached payloads for the
\* coordinate it was given; a call made when 120 s have passed requests both
\* feeds again.
C14_CacheFreshness ==
  [][FetchStep =>
       LET new == vicCalls'[Len(vicCalls')]
       IN /\ bothFresh =>
               /\ new.reqs = 0
               /\ new.res = classify(feedCache.data["events"], feedCache.data["impact"],
                                     new.lat, Origin.lon, vicNow)
          /\ bothStale =>
               /\ new.reqs = 2
               /\ \A f \in FeedNames : new.feeds[f].st = "pending"]_vars

\* a call served from the cache for another coordinate than the call that
\* filled it
C14_Witness ==
  /\ Len(vicCalls) = 2
  /\ vicCalls[1].reqs = 2 /\ vicCalls[2].reqs = 0
  /\ vicCalls[1].lat # vicCalls[2].lat
  /\ vicCalls[2].now > vicCalls[1].now
  /\ vicCalls[2].res.kind = "ok" /\ vicCalls[2].res.nearby # <<>>

\* C23: when a running tracker is stopped, the snapshot no longer holds a
\* coordinate or an address.
C23_StopClearsSnapshot ==
  [][(timerId /\ locCall' = "stop" /\ runCell # NoCell)
       => (snap'.coords = NoCoords /\ snap'.address = Null)]_vars

\* C24: without a configured endpoint no reverse-geocode request is issued,
\* the address of the snapshot is null and no geocoded cell is recorded.
C24_NoEndpointNoGeocoding ==
  ~API => /\ \A r \in DOMAIN geo : ~geo[r].net
          /\ snap.address = Null
          /\ ssLastCell = NoCell

\* the part of C24 about requests and the recorded cell
C24_NoRequestNoCell ==
  ~API => /\ \A r \in DOMAIN geo : ~geo[r].net
          /\ ssLastCell = NoCell
          /\ runReqs = 0

\* a failed position request is handled in this step (onError)
FailureStep == subCall'.op = "broadcast" /\ posPending' < posPending

\* C22: when a position request fails, coords, address and lastUpdated of the
\* snapshot keep their values, every subscriber is called with the snapshot,
\* and the tick interval stays as it was.
C22_FailureKeepsStateAndPublishes ==
  [][FailureStep =>
       /\ snap'.coords = snap.coords
       /\ snap'.address = snap.address
       /\ snap'.lastUpdated = snap.lastUpdated
       /\ \A i \in DOMAIN subs :
            \E k \in DOMAIN invoked' : invoked'[k] = [fn |-> subs[i], snap |-> snap']
       /\ timerId' = timerId /\ tickTimers' = tickTimers]_vars

\* the parts of C22 about the retained values and the interval
C22_FailureKeepsState ==
  [][FailureStep =>
       /\ snap' = snap
       /\ published' # <<>>
       /\ published'[Len(published')].snap = snap
       /\ timerId' = timerId /\ tickTimers' = tickTimers]_vars

\* the step starts a cycle: a new fetchOnce invocation, which holds the handle
NewCycle ==
  /\ Len(cyc') = Len(cyc) + 1
  /\ cyc'[Len(cyc')].pc = "fetch"
  /\ ~cyc'[Len(cyc')].aborted
  /\ inflight' = Len(cyc')

\* the events whose handler does not look at the visibility
Signals == {"tick", "cs:alerts:maybeChanged", "cs:weather:list"}
Foreground == {"focus", "visibilitychange"}

\* C25: start starts a cycle; while the aggregator is started every interval
\* tick, every "may have changed" signal, every "local records changed" signal
\* and every focus or visibilitychange with the document visible starts a
\* cycle; a focus or visibilitychange with the document not visible starts none.
C25_TriggersStartCycles ==
  [][ /\ dispatched'.ev = "start" => NewCycle
      /\ (timer /\ dispatched'.ev \in Signals) => NewCycle
      /\ (timer /\ dispatched'.ev \in Foreground /\ dispatched'.vs = "visible") => NewCycle
      /\ (dispatched'.ev \in Foreground /\ dispatched'.vs = "hidden") => cyc' = cyc
    ]_vars

\* a focus event with the document visible has started the third cycle, a
\* visibilitychange with the document hidden has been dispatched and ignored
C25_Witness ==
  /\ timer
  /\ dispatched = Event("focus", "visible")
  /\ Len(cyc) = 3
  /\ inflight = 3

C25_WitnessHidden ==
  /\ timer
  /\ dispatched = Event("visibilitychange", "hidden")
  /\ Len(cyc) >= 1

\* adjacent records: the earlier one has expiresAt >= the later one
SortedDesc(list) ==
  \A i \in 1..(Len(list) - 1) :
    NumGE(NumExpiresAt(list[i]), NumExpiresAt(list[i + 1]))

\* C26: the list a cycle persists in "cs.alerts.list" and publishes with
\* "cs:alerts:list" is ordered by expiresAt descending.
C26_PersistedSortedDesc == SortedDesc(lsAlertsList) /\ SortedDesc(evList)

\* a cycle persisted two records the backend listed in ascending order
C26_Witness ==
  /\ nEvList > 0
  /\ lsAlertsList = <<Rec("c1", "num", 2, "b"), Rec("c2", "num", 1, "b")>>
  /\ evList = lsAlertsList

\* the merge of every pair of lists is ordered by expiresAt descending
C26_MergeSortedDesc == mDone => SortedDesc(mOut)

\* the buckets of a result: "nearby" and the extended bucket of each category
BucketsOf(res) == {res.nearby} \cup {res.within30ByCategory[c] : c \in Categories}
\* x may stand right before y: higher priority, or the same and not older
InOrder(x, y) ==
  \/ weight(x.priority) > weight(y.priority)
  \/ weight(x.priority) = weight(y.priority) /\ x.timestamp >= y.timestamp

\* C27: in every result "nearby" and each extended bucket are ordered by
\* priority descending and, among equal priorities, by timestamp descending.
C27_BucketsSorted ==
  \A r \in DOMAIN cRuns :
    cRuns[r].res.kind = "ok" =>
      \A b \in BucketsOf(cRuns[r].res) :
        \A i \in 1..(Len(b) - 1) : InOrder(b[i], b[i + 1])

\* "nearby" holds two incidents of different priority, the later feature first
C27_Witness ==
  \E r \in DOMAIN cRuns :
    LET b == cRuns[r].res.nearby
    IN /\ cRuns[r].res.kind = "ok"
       /\ Len(b) = 2
       /\ b[1].feat > b[2].feat
       /\ weight(b[1].priority) > weight(b[2].priority)

\* an extended bucket holds two incidents of the same priority, the later and
\* more recent feature first
C27_WitnessRecency ==
  \E r \in DOMAIN cRuns, c \in Categories :
    LET b == cRuns[r].res.within30ByCategory[c]
    IN /\ cRuns[r].res.kind = "ok"
       /\ Len(b) = 2
       /\ b[1].feat > b[2].feat
       /\ b[1].priority = b[2].priority
       /\ b[1].timestamp > b[2].timestamp

\* the feature of Scenario A: properties exactly {category1: "Fire",
\* status: "Responding"}, centroid 3 km (to the metre) from the caller
ScenarioA(f) ==
  /\ f.bag = "object"
  /\ f.properties = SampleProps.fire
  /\ numericCentroid(f)
  /\ dOf(f) \in 2999500..3000500

\* C28: in every result the feature of Scenario A, unless an earlier feature
\* holds its id, is one incident of "nearby" with category SAFETY, priority
\* HIGH and distanceKm 3.0, and is in no extended bucket.
C28_ScenarioA ==
  \A r \in DOMAIN cRuns :
    cRuns[r].res.kind = "ok" =>
      \A i \in DOMAIN allFeats :
        (ScenarioA(allFeats[i]) /\ ~Taken(cRuns[r], i)) =>
          /\ \E k \in DOMAIN cRuns[r].res.nearby :
               LET m == cRuns[r].res.nearby[k]
               IN /\ m.feat = i
                  /\ m.category = "SAFETY"
                  /\ m.priority = "HIGH"
                  /\ m.distanceKm = [nan |-> FALSE, mm |-> 30]
          /\ \A c \in Categories : ~InExtended(cRuns[r].res, i, c)

\* a result whose only feature is the one of Scenario A
C28_Witness ==
  \E r \in DOMAIN cRuns :
    /\ Len(allFeats) = 1
    /\ ScenarioA(allFeats[1])
    /\ cRuns[r].res.kind = "ok"
    /\ Len(cRuns[r].res.nearby) = 1

\* the text priorityFromVic reads: status || category1 (the bags of InferBags
\* have neither name nor sourceTitle)
chosenText(p) == orElse(p.status, p.category1)
\* the texts with a keyword of the priority table, and those of its first row
PriorityTexts ==
  {Texts.emergencyWarning, Texts.evacuateNow, Texts.watchAndAct, Texts.warning, Texts.advice,
   Texts.responding, Texts.safe, Texts.emergency}
CriticalTexts ==
  {Texts.emergencyWarning, Texts.evacuateNow, Texts.watchAndAct, Texts.emergency}
\* the texts with a keyword of the category table
CategoryTexts == {Texts.fire, Texts.met, Texts.wind}

\* C29: every property bag gets a priority and a category; the priority is
\* MEDIUM when the chosen status text has no keyword of the table and
\* severity and urgency are not recognised; the category is SAFETY when no
\* category keyword occurs; a status text with "emergency", "evacuate" or
\* "watch and act" gives CRITICAL whatever severity and urgency are; the rows
\* apply in their order ("warning" before "moderate", "moderate" before
\* "responding").
C29_InferenceTotalFirstMatch ==
  \A r \in DOMAIN cRuns :
    /\ cRuns[r].res.kind = "ok"
    /\ \A i \in DOMAIN allFeats :
         \E k \in DOMAIN cRuns[r].res.nearby :
           LET m == cRuns[r].res.nearby[k]
               p == allFeats[i].properties
           IN /\ m.feat = i
              /\ m.priority \in {"CRITICAL", "HIGH", "MEDIUM", "LOW"}
              /\ m.category \in Categories
              /\ (/\ chosenText(p) \notin PriorityTexts
                  /\ p.severity \notin {Texts.severe, Texts.moderate}
                  /\ p.urgency # Texts.immediate) => m.priority = "MEDIUM"
              /\ (p.category1 \notin CategoryTexts /\ p.category2 \notin CategoryTexts)
                   => m.category = "SAFETY"
              /\ p.status \in CriticalTexts => m.priority = "CRITICAL"
              /\ p.status = Texts.warning => m.priority = "HIGH"
              /\ (p.status = Texts.responding /\ p.severity = Texts.moderate
                    /\ p.urgency # Texts.immediate) => m.priority = "MEDIUM"

\* a status with "emergency" and "warning", severity moderate and urgency
\* immediate was classified CRITICAL
C29_Witness ==
  \E r \in DOMAIN cRuns :
    /\ Len(allFeats) = 1
    /\ allFeats[1].properties.status = Texts.emergencyWarning
    /\ allFeats[1].properties.severity = Texts.moderate
    /\ allFeats[1].properties.urgency = Texts.immediate
    /\ Len(cRuns[r].res.nearby) = 1
    /\ cRuns[r].res.nearby[1].priority = "CRITICAL"

\* a bag without any keyword or recognised value was classified MEDIUM, SAFETY
C29_WitnessDefault ==
  \E r \in DOMAIN cRuns :
    /\ Len(allFeats) = 1
    /\ allFeats[1].properties.status = Texts.going
    /\ allFeats[1].properties.severity = Texts.minor
    /\ allFeats[1].properties.urgency = Texts.expected
    /\ allFeats[1].properties.category1 = Texts.flood
    /\ Len(cRuns[r].res.nearby) = 1
    /\ cRuns[r].res.nearby[1].priority = "MEDIUM"
    /\ cRuns[r].res.nearby[1].category = "SAFETY"

\* the first ring of a polygon, the first ring of the first polygon of a
\* multipolygon, as a sequence of entries
firstRing(g) ==
  LET r == IF g.type = "Polygon" THEN elem(g.coordinates, 1)
           ELSE elem(elem(g.coordinates, 1), 1)
  IN IF isArray(r) THEN r.items ELSE <<>>
\* the positions among the entries, and the mean of their j-th members
positions(ring) == SelectSeq(ring, LAMBDA p : isArray(p) /\ Len(p.items) >= 2)
ringMean(ring, j) ==
  LET ps == positions(ring)
  IN Jn(sumOf([i \in DOMAIN ps |-> ps[i].items[j]]) \div Len(ps))
\* the ring (0,0),(0,1),(1,1),(1,0), in units of 0.00001 degree
UnitSquare ==
  Ja(<<Ja(<<Jn(0), Jn(0)>>), Ja(<<Jn(0), Jn(100000)>>), Ja(<<Jn(100000), Jn(100000)>>),
       Ja(<<Jn(100000), Jn(0)>>)>>)

\* C30: the centroid of a Polygon is the mean of the positions of its first
\* ring, that of a MultiPolygon the mean of the first ring of its first
\* polygon, whatever further rings and polygons hold; a polygon without a
\* position in that ring has no centroid; the ring (0,0),(0,1),(1,1),(1,0)
\* gives (0.5, 0.5).
C30_PolygonCentroid ==
  /\ \A r \in DOMAIN cRuns :
       cRuns[r].res.kind = "ok" =>
         \A i \in DOMAIN allFeats :
           LET g == allFeats[i].geometry
               ring == firstRing(g)
           IN g.type \in {"Polygon", "MultiPolygon"} =>
                IF positions(ring) = <<>>
                THEN \A m \in ModelsOf(cRuns[r].res) : m.feat # i
                ELSE \E m \in ModelsOf(cRuns[r].res) :
                       /\ m.feat = i
                       /\ m.location = [kind |-> "centroid", lat |-> ringMean(ring, 2),
                                        lon |-> ringMean(ring, 1)]
  /\ centroid(Geom("Polygon", Ja(<<UnitSquare>>))) = CPt(Jn(50000), Jn(50000))
  /\ centroid(Geom("MultiPolygon", Ja(<<Ja(<<UnitSquare>>)>>))) = CPt(Jn(50000), Jn(50000))

\* a polygon whose second ring lies elsewhere was located at the mean of its
\* first ring, and so was a multipolygon with a second polygon
C30_Witness ==
  \E r \in DOMAIN cRuns :
    /\ Len(allFeats) = 2
    /\ allFeats[1].geometry = Geom("Polygon", Ja(<<Rings.square, Rings.far>>))
    /\ allFeats[2].geometry = Geom("MultiPolygon", Ja(<<Ja(<<Rings.far, Rings.square>>),
                                                        Ja(<<Rings.triangle>>)>>))
    /\ \E m \in ModelsOf(cRuns[r].res) :
         m.feat = 1 /\ m.location.lat = Jn(Origin.lat + 1000) /\ m.location.lon = Jn(Origin.lon)
    /\ \E m \in ModelsOf(cRuns[r].res) :
         m.feat = 2 /\ m.location.lat = Jn(Origin.lat + 3000) /\ m.location.lon = Jn(Origin.lon)

\* the listener of the w-th wait is subscribed
Listening(w) == \E i \in DOMAIN subs : subs[i] = WaitFns[w]

\* C21: a wait called with a known fix is resolved at once with it; a pending
\* wait has seen no fix (the first fix published resolves it, with the
\* coordinates of that fix); a wait resolved by its timeout is resolved with
\* null; a resolved wait has no listener subscribed and no timeout pending,
\* and is never resolved again.
C21_WaitForFirstFix ==
  [][\A w \in DOMAIN waits' :
       LET x == waits'[w]
       IN /\ x.how = "immediate" => x.val # NoCoords
          /\ x.pc = "pending" => x.seen = NoCoords
          /\ x.how = "listener" => (x.seen # NoCoords /\ x.val = x.seen)
          /\ x.how = "timeout" => (x.seen = NoCoords /\ x.val = NoCoords)
          /\ x.pc = "resolved" => (~x.timer /\ ~Listening(w)')
          /\ (w \in DOMAIN waits /\ waits[w].pc = "resolved") => x = waits[w]]_vars

\* the parts of C21 that do not depend on which listeners are reached: a
\* resolved wait has neither listener nor timeout and keeps its value, a
\* pending one has both
C21_WaitCleansUp ==
  [][\A w \in DOMAIN waits' :
       LET x == waits'[w]
       IN /\ x.how = "immediate" => x.val # NoCoords
          /\ x.pc = "resolved" => (~x.timer /\ ~Listening(w)')
          /\ x.pc = "pending" => (x.timer /\ Listening(w)')
          /\ (w \in DOMAIN waits /\ waits[w].pc = "resolved") => x = waits[w]]_vars

\* C32: whenever a cycle is awaiting its backend fetch and has not been
\* cancelled, the in-flight handle is that cycle's own controller; the cleanup
\* of an older cycle never clears or replaces the handle of a newer one.
C32_HandleIsOwn ==
  \A c \in DOMAIN cyc : (cyc[c].pc = "fetch" /\ ~cyc[c].aborted) => inflight = c

\* a parsed body without a valid alerts list: an error status whose body is
\* JSON, a payload with ok = false, an alerts field that is not a list
InvalidBodies == {b \in BackendBodies : b.kind = "noalerts"}

\* C33: a backend response that does not carry a valid alerts list is handled
\* like a failed fetch: the cycle that receives it removes no backend record
\* that is still unexpired from the persisted list and publishes no list
\* that lacks one.
C33_InvalidBodyKeepsBackend ==
  [][\A c \in DOMAIN cyc : \A b \in InvalidBodies :
       (~cyc[c].aborted /\ JsonSettle(c, b))
         => \A i \in DOMAIN lsAlertsList :
              (lsAlertsList[i].src = "b" /\ unexpired(lsAlertsList[i], nowSec))
                => /\ lsAlertsList[i] \in RangeOf(lsAlertsList')
                   /\ nEvList' # nEvList => lsAlertsList[i] \in RangeOf(evList')]_vars

\* the timer and the four listeners are registered once, or not at all
Registered == timer /\ intervals = 1 /\ listeners = AllListeners
Unregistered == ~timer /\ intervals = 0 /\ listeners = {}

\* C37: after any sequence of startAlertsPolling and stopAlertsPolling calls
\* at most one poll timer and one registration of each of the four listeners
\* is active, they are active if and only if the last call was start, and one
\* timer tick, signal or call starts at most one cycle.
C37_OneRegistration ==
  [][ /\ intervals' <= 1
      /\ IF lastCall' = "start" THEN Registered' ELSE Unregistered'
      /\ Len(cyc') <= Len(cyc) + 1 ]_vars

\* start has been called twice and the second call has started the second
\* cycle, with one timer and the four listeners registered
C37_Witness ==
  /\ dispatched.ev = "start"
  /\ lastCall = "start"
  /\ Len(cyc) = 2
  /\ Registered

\* stop has been called after a start
C37_WitnessStopped ==
  /\ dispatched.ev = "stop"
  /\ Len(cyc) >= 1
  /\ Unregistered

\* the unexpired input records of cluster id, by position in the concatenation
\* backend then local
rivals(id) ==
  {i \in DOMAIN mInput : mInput[i].clusterId = id /\ unexpired(mInput[i], mNow)}
\* the last of the rivals that have the largest expiresAt
lastLargest(id) ==
  CHOOSE i \in rivals(id) :
    \A j \in rivals(id) :
      \/ mInput[j].expiresAt < mInput[i].expiresAt
      \/ (mInput[j].expiresAt = mInput[i].expiresAt /\ j <= i)

\* C38: when unexpired records share clusterId and expiresAt the record kept
\* is the one later in the concatenation order, backend records first and
\* local records after them, so a local record wins over a backend record on
\* a tie; the record kept for a cluster is the last of those with the largest
\* expiresAt.
C38_TieKeepsLater ==
  mDone =>
    \A id \in ClusterIds \ {""} :
      rivals(id) # {} =>
        \E k \in DOMAIN mOut :
          /\ mOut[k] = mInput[lastLargest(id)]
          /\ \A l \in DOMAIN mOut : mOut[l].clusterId = id => l = k

\* a backend and a local record tie on clusterId and expiresAt and the local
\* one is in the output
C38_Witness ==
  /\ mDone
  /\ \E i, j \in DOMAIN mInput :
       /\ mInput[i].src = "b" /\ mInput[j].src = "w"
       /\ mInput[i].clusterId = "c1" /\ mInput[j].clusterId = "c1"
       /\ mInput[i].expiresAt = mInput[j].expiresAt
       /\ unexpired(mInput[i], mNow)
       /\ mInput[j] \in RangeOf(mOut)
       /\ mInput[i] \notin RangeOf(mOut)

\* the non-empty clusterIds of the unexpired input records
liveIds == {mInput[i].clusterId : i \in {j \in DOMAIN mInput : unexpired(mInput[j], mNow)}} \ {""}

\* C39: every record of the merged list has a non-empty clusterId: an input
\* record whose clusterId is missing or empty is dropped even when it is
\* unexpired, and the number of records in the list is the number of distinct
\* non-empty clusterIds among the unexpired inputs.
C39_NonEmptyIds ==
  mDone =>
    /\ \A k \in DOMAIN mOut : mOut[k].clusterId # ""
    /\ Len(mOut) = Cardinality(liveIds)

\* an unexpired record without clusterId was dropped while another was kept
C39_Witness ==
  /\ mDone
  /\ mOut # <<>>
  /\ \E i \in DOMAIN mInput : mInput[i].clusterId = "" /\ unexpired(mInput[i], mNow)

\* the categories the table of categoryFromVic names
Assigned == {"WEATHER", "INFRA", "SAFETY"}

\* C40: the classifier never assigns category TRAFFIC: every incident of a
\* result has category WEATHER, INFRA or SAFETY, the TRAFFIC bucket of
\* "extended" is empty and no "nearby" incident has category TRAFFIC.
C40_NeverTraffic ==
  \A r \in DOMAIN cRuns :
    cRuns[r].res.kind = "ok" =>
      /\ cRuns[r].res.within30ByCategory["TRAFFIC"] = <<>>
      /\ \A m \in ModelsOf(cRuns[r].res) : m.category \in Assigned
      /\ \A k \in DOMAIN cRuns[r].res.nearby : cRuns[r].res.nearby[k].category # "TRAFFIC"

\* a result with a "tree" incident in the INFRA bucket and a fire in "nearby"
C40_Witness ==
  \E r \in DOMAIN cRuns :
    /\ cRuns[r].res.kind = "ok"
    /\ cRuns[r].res.within30ByCategory["INFRA"] # <<>>
    /\ \E k \in DOMAIN cRuns[r].res.nearby : cRuns[r].res.nearby[k].category = "SAFETY"

\* a reverse-geocode request is in flight and has not been cancelled
Outstanding == \E r \in DOMAIN geo : geo[r].pc = "pending" /\ ~geo[r].aborted

\* C34: the geocoding flag of the snapshot is true exactly while a
\* reverse-geocode request of the tracker is in flight un-cancelled, also
\* when a newer request has superseded an older one and after stop() (looked
\* at once the continuation of every cancelled request has run).
C34_GeocodingFlagExact == NoGeoAbortPending => (snap.geocoding <=> Outstanding)

\* the address request r resolves with when the response is resp
resolved(r, resp) == reverseGeocode(geo[r].net, geo[r].aborted, resp)

\* C36: a reverse-geocode request that fails or returns no usable address
\* leaves the address of the snapshot and the remembered cell unchanged, and
\* a fix in the cell of that request is then not throttled; the remembered
\* cell changes only when a request commits an address, and then to the cell
\* that request was issued for.
C36_FailedGeocodeKeepsCell ==
  [][ /\ \A r \in DOMAIN geo : \A resp \in GeoResponses :
           (GeoSettle(r, resp) /\ ~Truthy(resolved(r, resp)))
             => /\ snap'.address = snap.address
                /\ ssLastCell' = ssLastCell
                /\ ~throttled([snap |-> snap', ssLastCell |-> ssLastCell'], geo[r].cell)
      /\ ssLastCell' # ssLastCell
           => \E r \in DOMAIN geo : \E resp \in GeoResponses :
                /\ GeoSettle(r, resp)
                /\ Truthy(resolved(r, resp))
                /\ snap'.address = resolved(r, resp)
                /\ ssLastCell' = geo[r].cell ]_vars

\* the feeds a call made in this step was given from the cache
servedFromCache ==
  {f \in FeedNames : vicCalls'[Len(vicCalls')].feeds[f].st = "done"}

\* C35: no payload is served from the cache 120 s or more after that payload
\* was fetched, whichever of the two feeds failed or succeeded in the
\* invocations before.
C35_ServedWithinTtl ==
  [][FetchStep =>
       \A f \in servedFromCache : vicNow - feedCache.wrote[f] < FEED_TTL_MS]_vars

\* the answers with which getVicFeed throws: a failed fetch, a status that is
\* not ok, an error wrapper
FeedFailures == {resp \in VicResponses : resp.kind # "data"}
otherFeed(f) == CHOOSE g \in FeedNames : g # f
\* the feed was not delivered to the call: its getVicFeed became null
undelivered(call, f) == call.feeds[f].st = "done" /\ ~truthyFeed(call.feeds[f].val)

\* C31: a failure of a feed fetch is never surfaced: the call completes, with
\* the classification of the other feed alone when one feed failed and with
\* an empty "nearby" and empty extended buckets when both failed; the failure
\* leaves the cache as it was, and the invocation after a call in which a
\* feed failed requests that feed again.
C31_FeedFailureContained ==
  [][ /\ \A c \in DOMAIN vicCalls : \A f \in FeedNames : \A resp \in FeedFailures :
           FeedSettle(c, f, resp) =>
             /\ feedCache' = feedCache
             /\ settled(vicCalls'[c]) =>
                  LET other == vicCalls[c].feeds[otherFeed(f)].val
                      res == vicCalls'[c].res
                  IN /\ res.kind = "ok"
                     /\ res = IF f = "events"
                              THEN classify(NoFeed, other, vicCalls[c].lat, Origin.lon, vicNow)
                              ELSE classify(other, NoFeed, vicCalls[c].lat, Origin.lon, vicNow)
                     /\ ~truthyFeed(other) => ModelsOf(res) = {}
      /\ (FetchStep /\ vicCalls # <<>> /\ settled(vicCalls[Len(vicCalls)]))
           => \A f \in FeedNames :
                undelivered(vicCalls[Len(vicCalls)], f)
                  => vicCalls'[Len(vicCalls')].feeds[f].st = "pending" ]_vars

====
